---------------------------- MODULE Spec2Model ----------------------------
(***************************************************************************)
(* Social-Media-Analyzer: the text normalizer of utils/extract.py, the     *)
(* PDF / image extraction fallback pipeline, the upload handler of app.py  *)
(* and the analytics of utils/analyze.py with its Gemini wrapper.          *)
(*                                                                         *)
(* A Python str is modelled as the sequence of the code points of its      *)
(* characters (ord), each a number of 0..1114111.                          *)
(***************************************************************************)
EXTENDS Naturals, Integers, Sequences, FiniteSets, TLC

\* ------------------------------------------------------------------------
\* Notation: the text of a literal.  Str(<<"p", "d", "f">>) is the str
\* "pdf", the sequence <<112, 100, 102>>.
\* ------------------------------------------------------------------------
\* The characters U+0020..U+005F, in code order
LiteralLow ==
    << " ", "!", "\"", "#", "$", "%", "&", "'", "(", ")", "*", "+", ",", "-",
       ".", "/", "0", "1", "2", "3", "4", "5", "6", "7", "8", "9", ":", ";",
       "<", "=", ">", "?", "@", "A", "B", "C", "D", "E", "F", "G", "H", "I",
       "J", "K", "L", "M", "N", "O", "P", "Q", "R", "S", "T", "U", "V", "W",
       "X", "Y", "Z", "[", "\\", "]", "^", "_" >>
\* The characters U+0061..U+007E, in code order
LiteralHigh ==
    << "a", "b", "c", "d", "e", "f", "g", "h", "i", "j", "k", "l", "m", "n",
       "o", "p", "q", "r", "s", "t", "u", "v", "w", "x", "y", "z", "{", "|",
       "}", "~" >>

\* ord(ch)
Code(ch) ==
    IF ch = "\t" THEN 9
    ELSE IF ch = "\n" THEN 10
    ELSE IF ch = "\f" THEN 12
    ELSE IF ch = "\r" THEN 13
    ELSE IF \E k \in 1..Len(LiteralLow) : LiteralLow[k] = ch
    THEN 31 + (CHOOSE k \in 1..Len(LiteralLow) : LiteralLow[k] = ch)
    ELSE 96 + (CHOOSE k \in 1..Len(LiteralHigh) : LiteralHigh[k] = ch)

Str(lit) == [k \in 1..Len(lit) |-> Code(lit[k])]

\* ------------------------------------------------------------------------
\* Characters and character classes of the regular expressions and of the
\* str methods, over all of Unicode (the tables are those of Unicode 14.0.0,
\* which the interpreter carries)
\* ------------------------------------------------------------------------
TAB == 9
NL == 10
FF == 12
CR == 13
SP == 32
HASH == 35
APOSTROPHE == 39
HY == 45
DOT == 46
SLASH == 47
AT == 64
LetterS == 83
UNDERSCORE == 95
LetterA == 97
\* e with acute accent, Greek capital omega, Ogham space mark
EAcute == 233
CapitalOmega == 937
OghamSpace == 5760

\* [ \t]
Blank == {SP, TAB}
\* \s of a str pattern, and the characters str.strip() and str.split() take
\* for whitespace (str.isspace)
Space ==
    (9..13) \cup (28..32) \cup {133, 160, 5760} \cup (8192..8202)
        \cup {8232, 8233, 8239, 8287, 12288}
Digits == 48..57
UpperLetters == 65..90
LowerLetters == 97..122
\* [A-Za-z0-9_]
AsciiWordChars == LowerLetters \cup UpperLetters \cup Digits \cup {UNDERSCORE}

\* The characters of a table of ranges <<first, last>>
CharsOf(table) == UNION { table[k][1]..table[k][2] : k \in 1..Len(table) }

\* The ranges of the characters \w of a str pattern matches: those
\* str.isalnum() holds of, and "_"
WordRanges ==
    << <<48, 57>>, <<65, 90>>, <<95, 95>>, <<97, 122>>, <<170, 170>>, <<178,
       179>>, <<181, 181>>, <<185, 186>>, <<188, 190>>, <<192, 214>>, <<216,
       246>>, <<248, 705>>, <<710, 721>>, <<736, 740>>, <<748, 748>>, <<750,
       750>>, <<880, 884>>, <<886, 887>>, <<890, 893>>, <<895, 895>>, <<902,
       902>>, <<904, 906>>, <<908, 908>>, <<910, 929>>, <<931, 1013>>, <<1015,
       1153>>, <<1162, 1327>>, <<1329, 1366>>, <<1369, 1369>>, <<1376, 1416>>,
       <<1488, 1514>>, <<1519, 1522>>, <<1568, 1610>>, <<1632, 1641>>, <<1646,
       1647>>, <<1649, 1747>>, <<1749, 1749>>, <<1765, 1766>>, <<1774, 1788>>,
       <<1791, 1791>>, <<1808, 1808>>, <<1810, 1839>>, <<1869, 1957>>, <<1969,
       1969>>, <<1984, 2026>>, <<2036, 2037>>, <<2042, 2042>>, <<2048, 2069>>,
       <<2074, 2074>>, <<2084, 2084>>, <<2088, 2088>>, <<2112, 2136>>, <<2144,
       2154>>, <<2160, 2183>>, <<2185, 2190>>, <<2208, 2249>>, <<2308, 2361>>,
       <<2365, 2365>>, <<2384, 2384>>, <<2392, 2401>>, <<2406, 2415>>, <<2417,
       2432>>, <<2437, 2444>>, <<2447, 2448>>, <<2451, 2472>>, <<2474, 2480>>,
       <<2482, 2482>>, <<2486, 2489>>, <<2493, 2493>>, <<2510, 2510>>, <<2524,
       2525>>, <<2527, 2529>>, <<2534, 2545>>, <<2548, 2553>>, <<2556, 2556>>,
       <<2565, 2570>>, <<2575, 2576>>, <<2579, 2600>>, <<2602, 2608>>, <<2610,
       2611>>, <<2613, 2614>>, <<2616, 2617>>, <<2649, 2652>>, <<2654, 2654>>,
       <<2662, 2671>>, <<2674, 2676>>, <<2693, 2701>>, <<2703, 2705>>, <<2707,
       2728>>, <<2730, 2736>>, <<2738, 2739>>, <<2741, 2745>>, <<2749, 2749>>,
       <<2768, 2768>>, <<2784, 2785>>, <<2790, 2799>>, <<2809, 2809>>, <<2821,
       2828>>, <<2831, 2832>>, <<2835, 2856>>, <<2858, 2864>>, <<2866, 2867>>,
       <<2869, 2873>>, <<2877, 2877>>, <<2908, 2909>>, <<2911, 2913>>, <<2918,
       2927>>, <<2929, 2935>>, <<2947, 2947>>, <<2949, 2954>>, <<2958, 2960>>,
       <<2962, 2965>>, <<2969, 2970>>, <<2972, 2972>>, <<2974, 2975>>, <<2979,
       2980>>, <<2984, 2986>>, <<2990, 3001>>, <<3024, 3024>>, <<3046, 3058>>,
       <<3077, 3084>>, <<3086, 3088>>, <<3090, 3112>>, <<3114, 3129>>, <<3133,
       3133>>, <<3160, 3162>>, <<3165, 3165>>, <<3168, 3169>>, <<3174, 3183>>,
       <<3192, 3198>>, <<3200, 3200>>, <<3205, 3212>>, <<3214, 3216>>, <<3218,
       3240>>, <<3242, 3251>>, <<3253, 3257>>, <<3261, 3261>>, <<3293, 3294>>,
       <<3296, 3297>>, <<3302, 3311>>, <<3313, 3314>>, <<3332, 3340>>, <<3342,
       3344>>, <<3346, 3386>>, <<3389, 3389>>, <<3406, 3406>>, <<3412, 3414>>,
       <<3416, 3425>>, <<3430, 3448>>, <<3450, 3455>>, <<3461, 3478>>, <<3482,
       3505>>, <<3507, 3515>>, <<3517, 3517>>, <<3520, 3526>>, <<3558, 3567>>,
       <<3585, 3632>>, <<3634, 3635>>, <<3648, 3654>>, <<3664, 3673>>, <<3713,
       3714>>, <<3716, 3716>>, <<3718, 3722>>, <<3724, 3747>>, <<3749, 3749>>,
       <<3751, 3760>>, <<3762, 3763>>, <<3773, 3773>>, <<3776, 3780>>, <<3782,
       3782>>, <<3792, 3801>>, <<3804, 3807>>, <<3840, 3840>>, <<3872, 3891>>,
       <<3904, 3911>>, <<3913, 3948>>, <<3976, 3980>>, <<4096, 4138>>, <<4159,
       4169>>, <<4176, 4181>>, <<4186, 4189>>, <<4193, 4193>>, <<4197, 4198>>,
       <<4206, 4208>>, <<4213, 4225>>, <<4238, 4238>>, <<4240, 4249>>, <<4256,
       4293>>, <<4295, 4295>>, <<4301, 4301>>, <<4304, 4346>>, <<4348, 4680>>,
       <<4682, 4685>>, <<4688, 4694>>, <<4696, 4696>>, <<4698, 4701>>, <<4704,
       4744>>, <<4746, 4749>>, <<4752, 4784>>, <<4786, 4789>>, <<4792, 4798>>,
       <<4800, 4800>>, <<4802, 4805>>, <<4808, 4822>>, <<4824, 4880>>, <<4882,
       4885>>, <<4888, 4954>>, <<4969, 4988>>, <<4992, 5007>>, <<5024, 5109>>,
       <<5112, 5117>>, <<5121, 5740>>, <<5743, 5759>>, <<5761, 5786>>, <<5792,
       5866>>, <<5870, 5880>>, <<5888, 5905>>, <<5919, 5937>>, <<5952, 5969>>,
       <<5984, 5996>>, <<5998, 6000>>, <<6016, 6067>>, <<6103, 6103>>, <<6108,
       6108>>, <<6112, 6121>>, <<6128, 6137>>, <<6160, 6169>>, <<6176, 6264>>,
       <<6272, 6276>>, <<6279, 6312>>, <<6314, 6314>>, <<6320, 6389>>, <<6400,
       6430>>, <<6470, 6509>>, <<6512, 6516>>, <<6528, 6571>>, <<6576, 6601>>,
       <<6608, 6618>>, <<6656, 6678>>, <<6688, 6740>>, <<6784, 6793>>, <<6800,
       6809>>, <<6823, 6823>>, <<6917, 6963>>, <<6981, 6988>>, <<6992, 7001>>,
       <<7043, 7072>>, <<7086, 7141>>, <<7168, 7203>>, <<7232, 7241>>, <<7245,
       7293>>, <<7296, 7304>>, <<7312, 7354>>, <<7357, 7359>>, <<7401, 7404>>,
       <<7406, 7411>>, <<7413, 7414>>, <<7418, 7418>>, <<7424, 7615>>, <<7680,
       7957>>, <<7960, 7965>>, <<7968, 8005>>, <<8008, 8013>>, <<8016, 8023>>,
       <<8025, 8025>>, <<8027, 8027>>, <<8029, 8029>>, <<8031, 8061>>, <<8064,
       8116>>, <<8118, 8124>>, <<8126, 8126>>, <<8130, 8132>>, <<8134, 8140>>,
       <<8144, 8147>>, <<8150, 8155>>, <<8160, 8172>>, <<8178, 8180>>, <<8182,
       8188>>, <<8304, 8305>>, <<8308, 8313>>, <<8319, 8329>>, <<8336, 8348>>,
       <<8450, 8450>>, <<8455, 8455>>, <<8458, 8467>>, <<8469, 8469>>, <<8473,
       8477>>, <<8484, 8484>>, <<8486, 8486>>, <<8488, 8488>>, <<8490, 8493>>,
       <<8495, 8505>>, <<8508, 8511>>, <<8517, 8521>>, <<8526, 8526>>, <<8528,
       8585>>, <<9312, 9371>>, <<9450, 9471>>, <<10102, 10131>>, <<11264,
       11492>>, <<11499, 11502>>, <<11506, 11507>>, <<11517, 11517>>, <<11520,
       11557>>, <<11559, 11559>>, <<11565, 11565>>, <<11568, 11623>>, <<11631,
       11631>>, <<11648, 11670>>, <<11680, 11686>>, <<11688, 11694>>, <<11696,
       11702>>, <<11704, 11710>>, <<11712, 11718>>, <<11720, 11726>>, <<11728,
       11734>>, <<11736, 11742>>, <<11823, 11823>>, <<12293, 12295>>, <<12321,
       12329>>, <<12337, 12341>>, <<12344, 12348>>, <<12353, 12438>>, <<12445,
       12447>>, <<12449, 12538>>, <<12540, 12543>>, <<12549, 12591>>, <<12593,
       12686>>, <<12690, 12693>>, <<12704, 12735>>, <<12784, 12799>>, <<12832,
       12841>>, <<12872, 12879>>, <<12881, 12895>>, <<12928, 12937>>, <<12977,
       12991>>, <<13312, 19903>>, <<19968, 42124>>, <<42192, 42237>>, <<42240,
       42508>>, <<42512, 42539>>, <<42560, 42606>>, <<42623, 42653>>, <<42656,
       42735>>, <<42775, 42783>>, <<42786, 42888>>, <<42891, 42954>>, <<42960,
       42961>>, <<42963, 42963>>, <<42965, 42969>>, <<42994, 43009>>, <<43011,
       43013>>, <<43015, 43018>>, <<43020, 43042>>, <<43056, 43061>>, <<43072,
       43123>>, <<43138, 43187>>, <<43216, 43225>>, <<43250, 43255>>, <<43259,
       43259>>, <<43261, 43262>>, <<43264, 43301>>, <<43312, 43334>>, <<43360,
       43388>>, <<43396, 43442>>, <<43471, 43481>>, <<43488, 43492>>, <<43494,
       43518>>, <<43520, 43560>>, <<43584, 43586>>, <<43588, 43595>>, <<43600,
       43609>>, <<43616, 43638>>, <<43642, 43642>>, <<43646, 43695>>, <<43697,
       43697>>, <<43701, 43702>>, <<43705, 43709>>, <<43712, 43712>>, <<43714,
       43714>>, <<43739, 43741>>, <<43744, 43754>>, <<43762, 43764>>, <<43777,
       43782>>, <<43785, 43790>>, <<43793, 43798>>, <<43808, 43814>>, <<43816,
       43822>>, <<43824, 43866>>, <<43868, 43881>>, <<43888, 44002>>, <<44016,
       44025>>, <<44032, 55203>>, <<55216, 55238>>, <<55243, 55291>>, <<63744,
       64109>>, <<64112, 64217>>, <<64256, 64262>>, <<64275, 64279>>, <<64285,
       64285>>, <<64287, 64296>>, <<64298, 64310>>, <<64312, 64316>>, <<64318,
       64318>>, <<64320, 64321>>, <<64323, 64324>>, <<64326, 64433>>, <<64467,
       64829>>, <<64848, 64911>>, <<64914, 64967>>, <<65008, 65019>>, <<65136,
       65140>>, <<65142, 65276>>, <<65296, 65305>>, <<65313, 65338>>, <<65345,
       65370>>, <<65382, 65470>>, <<65474, 65479>>, <<65482, 65487>>, <<65490,
       65495>>, <<65498, 65500>>, <<65536, 65547>>, <<65549, 65574>>, <<65576,
       65594>>, <<65596, 65597>>, <<65599, 65613>>, <<65616, 65629>>, <<65664,
       65786>>, <<65799, 65843>>, <<65856, 65912>>, <<65930, 65931>>, <<66176,
       66204>>, <<66208, 66256>>, <<66273, 66299>>, <<66304, 66339>>, <<66349,
       66378>>, <<66384, 66421>>, <<66432, 66461>>, <<66464, 66499>>, <<66504,
       66511>>, <<66513, 66517>>, <<66560, 66717>>, <<66720, 66729>>, <<66736,
       66771>>, <<66776, 66811>>, <<66816, 66855>>, <<66864, 66915>>, <<66928,
       66938>>, <<66940, 66954>>, <<66956, 66962>>, <<66964, 66965>>, <<66967,
       66977>>, <<66979, 66993>>, <<66995, 67001>>, <<67003, 67004>>, <<67072,
       67382>>, <<67392, 67413>>, <<67424, 67431>>, <<67456, 67461>>, <<67463,
       67504>>, <<67506, 67514>>, <<67584, 67589>>, <<67592, 67592>>, <<67594,
       67637>>, <<67639, 67640>>, <<67644, 67644>>, <<67647, 67669>>, <<67672,
       67702>>, <<67705, 67742>>, <<67751, 67759>>, <<67808, 67826>>, <<67828,
       67829>>, <<67835, 67867>>, <<67872, 67897>>, <<67968, 68023>>, <<68028,
       68047>>, <<68050, 68096>>, <<68112, 68115>>, <<68117, 68119>>, <<68121,
       68149>>, <<68160, 68168>>, <<68192, 68222>>, <<68224, 68255>>, <<68288,
       68295>>, <<68297, 68324>>, <<68331, 68335>>, <<68352, 68405>>, <<68416,
       68437>>, <<68440, 68466>>, <<68472, 68497>>, <<68521, 68527>>, <<68608,
       68680>>, <<68736, 68786>>, <<68800, 68850>>, <<68858, 68899>>, <<68912,
       68921>>, <<69216, 69246>>, <<69248, 69289>>, <<69296, 69297>>, <<69376,
       69415>>, <<69424, 69445>>, <<69457, 69460>>, <<69488, 69505>>, <<69552,
       69579>>, <<69600, 69622>>, <<69635, 69687>>, <<69714, 69743>>, <<69745,
       69746>>, <<69749, 69749>>, <<69763, 69807>>, <<69840, 69864>>, <<69872,
       69881>>, <<69891, 69926>>, <<69942, 69951>>, <<69956, 69956>>, <<69959,
       69959>>, <<69968, 70002>>, <<70006, 70006>>, <<70019, 70066>>, <<70081,
       70084>>, <<70096, 70106>>, <<70108, 70108>>, <<70113, 70132>>, <<70144,
       70161>>, <<70163, 70187>>, <<70272, 70278>>, <<70280, 70280>>, <<70282,
       70285>>, <<70287, 70301>>, <<70303, 70312>>, <<70320, 70366>>, <<70384,
       70393>>, <<70405, 70412>>, <<70415, 70416>>, <<70419, 70440>>, <<70442,
       70448>>, <<70450, 70451>>, <<70453, 70457>>, <<70461, 70461>>, <<70480,
       70480>>, <<70493, 70497>>, <<70656, 70708>>, <<70727, 70730>>, <<70736,
       70745>>, <<70751, 70753>>, <<70784, 70831>>, <<70852, 70853>>, <<70855,
       70855>>, <<70864, 70873>>, <<71040, 71086>>, <<71128, 71131>>, <<71168,
       71215>>, <<71236, 71236>>, <<71248, 71257>>, <<71296, 71338>>, <<71352,
       71352>>, <<71360, 71369>>, <<71424, 71450>>, <<71472, 71483>>, <<71488,
       71494>>, <<71680, 71723>>, <<71840, 71922>>, <<71935, 71942>>, <<71945,
       71945>>, <<71948, 71955>>, <<71957, 71958>>, <<71960, 71983>>, <<71999,
       71999>>, <<72001, 72001>>, <<72016, 72025>>, <<72096, 72103>>, <<72106,
       72144>>, <<72161, 72161>>, <<72163, 72163>>, <<72192, 72192>>, <<72203,
       72242>>, <<72250, 72250>>, <<72272, 72272>>, <<72284, 72329>>, <<72349,
       72349>>, <<72368, 72440>>, <<72704, 72712>>, <<72714, 72750>>, <<72768,
       72768>>, <<72784, 72812>>, <<72818, 72847>>, <<72960, 72966>>, <<72968,
       72969>>, <<72971, 73008>>, <<73030, 73030>>, <<73040, 73049>>, <<73056,
       73061>>, <<73063, 73064>>, <<73066, 73097>>, <<73112, 73112>>, <<73120,
       73129>>, <<73440, 73458>>, <<73648, 73648>>, <<73664, 73684>>, <<73728,
       74649>>, <<74752, 74862>>, <<74880, 75075>>, <<77712, 77808>>, <<77824,
       78894>>, <<82944, 83526>>, <<92160, 92728>>, <<92736, 92766>>, <<92768,
       92777>>, <<92784, 92862>>, <<92864, 92873>>, <<92880, 92909>>, <<92928,
       92975>>, <<92992, 92995>>, <<93008, 93017>>, <<93019, 93025>>, <<93027,
       93047>>, <<93053, 93071>>, <<93760, 93846>>, <<93952, 94026>>, <<94032,
       94032>>, <<94099, 94111>>, <<94176, 94177>>, <<94179, 94179>>, <<94208,
       100343>>, <<100352, 101589>>, <<101632, 101640>>, <<110576, 110579>>,
       <<110581, 110587>>, <<110589, 110590>>, <<110592, 110882>>, <<110928,
       110930>>, <<110948, 110951>>, <<110960, 111355>>, <<113664, 113770>>,
       <<113776, 113788>>, <<113792, 113800>>, <<113808, 113817>>, <<119520,
       119539>>, <<119648, 119672>>, <<119808, 119892>>, <<119894, 119964>>,
       <<119966, 119967>>, <<119970, 119970>>, <<119973, 119974>>, <<119977,
       119980>>, <<119982, 119993>>, <<119995, 119995>>, <<119997, 120003>>,
       <<120005, 120069>>, <<120071, 120074>>, <<120077, 120084>>, <<120086,
       120092>>, <<120094, 120121>>, <<120123, 120126>>, <<120128, 120132>>,
       <<120134, 120134>>, <<120138, 120144>>, <<120146, 120485>>, <<120488,
       120512>>, <<120514, 120538>>, <<120540, 120570>>, <<120572, 120596>>,
       <<120598, 120628>>, <<120630, 120654>>, <<120656, 120686>>, <<120688,
       120712>>, <<120714, 120744>>, <<120746, 120770>>, <<120772, 120779>>,
       <<120782, 120831>>, <<122624, 122654>>, <<123136, 123180>>, <<123191,
       123197>>, <<123200, 123209>>, <<123214, 123214>>, <<123536, 123565>>,
       <<123584, 123627>>, <<123632, 123641>>, <<124896, 124902>>, <<124904,
       124907>>, <<124909, 124910>>, <<124912, 124926>>, <<124928, 125124>>,
       <<125127, 125135>>, <<125184, 125251>>, <<125259, 125259>>, <<125264,
       125273>>, <<126065, 126123>>, <<126125, 126127>>, <<126129, 126132>>,
       <<126209, 126253>>, <<126255, 126269>>, <<126464, 126467>>, <<126469,
       126495>>, <<126497, 126498>>, <<126500, 126500>>, <<126503, 126503>>,
       <<126505, 126514>>, <<126516, 126519>>, <<126521, 126521>>, <<126523,
       126523>>, <<126530, 126530>>, <<126535, 126535>>, <<126537, 126537>>,
       <<126539, 126539>>, <<126541, 126543>>, <<126545, 126546>>, <<126548,
       126548>>, <<126551, 126551>>, <<126553, 126553>>, <<126555, 126555>>,
       <<126557, 126557>>, <<126559, 126559>>, <<126561, 126562>>, <<126564,
       126564>>, <<126567, 126570>>, <<126572, 126578>>, <<126580, 126583>>,
       <<126585, 126588>>, <<126590, 126590>>, <<126592, 126601>>, <<126603,
       126619>>, <<126625, 126627>>, <<126629, 126633>>, <<126635, 126651>>,
       <<127232, 127244>>, <<130032, 130041>>, <<131072, 173791>>, <<173824,
       177976>>, <<177984, 178205>>, <<178208, 183969>>, <<183984, 191456>>,
       <<194560, 195101>>, <<196608, 201546>> >>
\* \w
WordChars == CharsOf(WordRanges)

\* First index j >= i of s whose character is not in class C (Len(s)+1 if none):
\* the end of the greedy run a C+ or C* matches from i.
RECURSIVE RunEnd(_, _, _)
RunEnd(s, i, C) ==
    IF i > Len(s) \/ s[i] \notin C THEN i ELSE RunEnd(s, i + 1, C)

\* Last index j <= i of s whose character is not in class C (0 if none)
RECURSIVE RunStart(_, _, _)
RunStart(s, i, C) ==
    IF i < 1 \/ s[i] \notin C THEN i ELSE RunStart(s, i - 1, C)

\* str.replace(pat, rep): leftmost, non-overlapping literal replacement.
RECURSIVE ReplaceFrom(_, _, _, _)
ReplaceFrom(s, i, pat, rep) ==
    IF i > Len(s) THEN <<>>
    ELSE IF i + Len(pat) - 1 <= Len(s) /\ SubSeq(s, i, i + Len(pat) - 1) = pat
         THEN rep \o ReplaceFrom(s, i + Len(pat), pat, rep)
         ELSE <<s[i]>> \o ReplaceFrom(s, i + 1, pat, rep)

StrReplace(s, pat, rep) == ReplaceFrom(s, 1, pat, rep)

\* str.strip(chars) and str.strip()
StripChars(s, C) == SubSeq(s, RunEnd(s, 1, C), RunStart(s, Len(s), C))

Strip(s) == StripChars(s, Space)

\* re.sub(r"[ \t]+\n", "\n", text)
RECURSIVE SubBlanksBeforeNewline(_, _)
SubBlanksBeforeNewline(s, i) ==
    IF i > Len(s) THEN <<>>
    ELSE IF s[i] \in Blank
         THEN LET j == RunEnd(s, i, Blank)
              IN  IF j <= Len(s) /\ s[j] = NL
                  THEN <<NL>> \o SubBlanksBeforeNewline(s, j + 1)
                  ELSE SubSeq(s, i, j - 1) \o SubBlanksBeforeNewline(s, j)
         ELSE <<s[i]>> \o SubBlanksBeforeNewline(s, i + 1)

\* re.sub(r"\n[ \t]+", "\n", text)
RECURSIVE SubBlanksAfterNewline(_, _)
SubBlanksAfterNewline(s, i) ==
    IF i > Len(s) THEN <<>>
    ELSE IF s[i] = NL /\ i + 1 <= Len(s) /\ s[i + 1] \in Blank
         THEN <<NL>> \o SubBlanksAfterNewline(s, RunEnd(s, i + 1, Blank))
         ELSE <<s[i]>> \o SubBlanksAfterNewline(s, i + 1)

\* re.sub(r"\n{3,}", "\n\n", text)
RECURSIVE CollapseNewlines(_, _)
CollapseNewlines(s, i) ==
    IF i > Len(s) THEN <<>>
    ELSE IF s[i] = NL
         THEN LET j == RunEnd(s, i, {NL})
              IN  (IF j - i >= 3 THEN <<NL, NL>> ELSE SubSeq(s, i, j - 1))
                  \o CollapseNewlines(s, j)
         ELSE <<s[i]>> \o CollapseNewlines(s, i + 1)

\* re.sub(r"[ \t]+", " ", t)
RECURSIVE CollapseBlanks(_, _)
CollapseBlanks(s, i) ==
    IF i > Len(s) THEN <<>>
    ELSE IF s[i] \in Blank
         THEN <<SP>> \o CollapseBlanks(s, RunEnd(s, i, Blank))
         ELSE <<s[i]>> \o CollapseBlanks(s, i + 1)

\* Whether r"(\w)-\s*\n\s*(\w)" matches at i: a word character, a hyphen, a
\* whitespace run holding at least one line break, a word character.  The run
\* must be the whole maximal run, the closing \w being no whitespace.
HyphenBreakAt(s, i) ==
    /\ i + 1 <= Len(s)
    /\ s[i] \in WordChars
    /\ s[i + 1] = HY
    /\ LET j == RunEnd(s, i + 2, Space)
       IN  /\ j <= Len(s)
           /\ s[j] \in WordChars
           /\ \E k \in (i + 2)..(j - 1) : s[k] = NL

\* re.sub(r"(\w)-\s*\n\s*(\w)", r"\1\2", text): matches are taken left to
\* right and do not overlap, the search resuming after the closing \w.
RECURSIVE SubHyphenBreaks(_, _)
SubHyphenBreaks(s, i) ==
    IF i > Len(s) THEN <<>>
    ELSE IF HyphenBreakAt(s, i)
         THEN LET j == RunEnd(s, i + 2, Space)
              IN  <<s[i], s[j]>> \o SubHyphenBreaks(s, j + 1)
         ELSE <<s[i]>> \o SubHyphenBreaks(s, i + 1)

normalize_hyphenation_and_spaces(text) ==
    IF text = <<>> THEN <<>>
    ELSE LET t1 == SubHyphenBreaks(text, 1)
             t2 == SubBlanksBeforeNewline(t1, 1)
             t3 == SubBlanksAfterNewline(t2, 1)
             t4 == CollapseNewlines(t3, 1)
         IN  Strip(t4)

\* text.replace("\r\n", "\n").replace("\r", "\n")
CanonNewlines(text) ==
    StrReplace(StrReplace(text, <<CR, NL>>, <<NL>>), <<CR>>, <<NL>>)

\* The placeholder "<<<P>>>" of _join_soft_linebreaks_keep_paragraphs
ParagraphMark == Str(<<"<", "<", "<", "P", ">", ">", ">">>)

\* _join_soft_linebreaks_keep_paragraphs without t.replace("\n", " ")
join_keeping_soft_linebreaks(text) ==
    IF text = <<>> THEN <<>>
    ELSE Strip(CollapseNewlines(CollapseBlanks(CanonNewlines(text), 1), 1))

join_soft_linebreaks_keep_paragraphs(text) ==
    IF text = <<>> THEN <<>>
    ELSE LET t0 == CanonNewlines(text)
             t1 == StrReplace(t0, <<NL, NL>>, ParagraphMark)
             t2 == StrReplace(t1, <<NL>>, <<SP>>)
             t3 == StrReplace(t2, ParagraphMark, <<NL, NL>>)
             t4 == CollapseBlanks(t3, 1)
             t5 == CollapseNewlines(t4, 1)
         IN  Strip(t5)

postprocess_text(text, preserve) ==
    IF text = <<>> THEN <<>>
    ELSE LET t == CanonNewlines(text)
         IN  IF preserve
             THEN Strip(CollapseNewlines(SubBlanksBeforeNewline(t, 1), 1))
             ELSE join_soft_linebreaks_keep_paragraphs(
                      normalize_hyphenation_and_spaces(t))

\* ------------------------------------------------------------------------
\* String literals of the source, as character sequences
\* ------------------------------------------------------------------------
\* app.py:31  "Unsupported: "
StrUnsupported ==
    Str(<<"U", "n", "s", "u", "p", "p", "o", "r", "t", "e", "d", ":", " ">>)
\* app.py:41  "No text in "
StrNoTextIn ==
    Str(<<"N", "o", " ", "t", "e", "x", "t", " ", "i", "n", " ">>)
\* app.py:43  "Error in "
StrErrorIn ==
    Str(<<"E", "r", "r", "o", "r", " ", "i", "n", " ">>)
StrColon ==
    Str(<<":", " ">>)
\* extract.py:193  "Error extracting PDF text: "
StrErrPdf ==
    Str(<<"E", "r", "r", "o", "r", " ", "e", "x", "t", "r", "a", "c", "t", "i",
      "n", "g", " ", "P", "D", "F", " ", "t", "e", "x", "t", ":", " ">>)
\* extract.py:205  "Error extracting image text: "
StrErrImage ==
    Str(<<"E", "r", "r", "o", "r", " ", "e", "x", "t", "r", "a", "c", "t", "i",
      "n", "g", " ", "i", "m", "a", "g", "e", " ", "t", "e", "x", "t", ":", " ">>)
\* extract.py:190  "No text found (even with OCR)."
StrNoTextFound ==
    Str(<<"N", "o", " ", "t", "e", "x", "t", " ", "f", "o", "u", "n", "d", " ",
      "(", "e", "v", "e", "n", " ", "w", "i", "t", "h", " ", "O", "C", "R",
      ")", ".">>)
\* "\n\n", the separator of page texts and of the combined text
BlankLine == <<NL, NL>>

\* ------------------------------------------------------------------------
\* Messages of the exceptions the libraries raise (inputs of the model)
\* ------------------------------------------------------------------------
ExcClosed == Str(<<"c", "l", "o", "s", "e", "d">>)
ExcBadPdf == Str(<<"b", "a", "d", " ", "p", "d", "f">>)
ExcNoPoppler == Str(<<"n", "o", " ", "p", "o", "p", "p", "l", "e", "r">>)
ExcBadImage == Str(<<"b", "a", "d", " ", "i", "m", "a", "g", "e">>)
\* IndexError of name.rsplit(".", 1)[1] on a name without a dot
ExcIndex ==
    Str(<<"l", "i", "s", "t", " ", "i", "n", "d", "e", "x", " ", "o", "u", "t",
      " ", "o", "f", " ", "r", "a", "n", "g", "e">>)

\* ------------------------------------------------------------------------
\* Texts the extraction libraries hand back (inputs of the model)
\* ------------------------------------------------------------------------
\* exactly ten characters
TxtTen ==
    Str(<<"0", "1", "2", "3", "4", "5", "6", "7", "8", "9">>)
\* eleven characters kept in preserve mode, nine once the hyphen break is joined
TxtHyphen ==
    Str(<<"0", "1", "2", "3", "4", "5", "6", "-", "\n", "8", "9">>)
TxtPost ==
    Str(<<"J", "o", "i", "n", " ", "u", "s", " ", "a", "t", "\n", "#", "a", "i",
      " ", " ">>)
TxtPageNo ==
    Str(<<" ", "1", " ">>)
\* eleven characters raw, the form feed pdfminer ends a page with among
\* them, ten once normalized
TxtMinerTen ==
    Str(<<"0", "1", "2", "3", "4", "5", "6", "7", "8", "9", "\f">>)
TxtMinerLong ==
    Str(<<"W", "e", " ", "l", "o", "v", "e", " ", "t", "h", "e", "\r", "\n", "n",
      "e", "w", " ", "@", "a", "c", "m", "e", " ", "a", "p", "p">>)
TxtOcrBlank ==
    <<SP, NL>>
TxtOcrShort ==
    Str(<<"S", "a", "l", "e", " ", "n", "o", "w">>)

\* page.extract_text() of every page of the document
PlumberPages == { <<>>, <<TxtPageNo>>, <<TxtTen>>, <<TxtHyphen>>, <<TxtPost, TxtPageNo>> }
\* pdfminer_extract() of the whole document
MinerTexts == { <<>>, TxtMinerTen, TxtMinerLong }
\* pytesseract.image_to_string() of every rasterized page
OcrPages == { <<>>, <<TxtOcrBlank>>, <<TxtOcrBlank, TxtOcrShort>> }
\* pytesseract.image_to_string() of an uploaded image
OcrImageTexts == { <<>>, TxtOcrBlank, TxtOcrShort }

\* ------------------------------------------------------------------------
\* Uploaded file names (inputs of the model)
\* ------------------------------------------------------------------------
NameReportPdf == Str(<<"r", ".", "p", "d", "f">>)
NameScanPng == <<LetterS, CapitalOmega>> \o Str(<<".", "P", "N", "G">>)
NameNotesDocx == Str(<<"n", ".", "d", "o", "c", "x">>)
NameDotPdf == Str(<<".", "p", "d", "f">>)
NameEmpty == <<>>

FileNames == { NameReportPdf, NameScanPng, NameNotesDocx, NameDotPdf }

MaxFiles == 2

\* What request.files.getlist("files") holds: nothing (no such field), one
\* part with an empty file name (a browser submitting the form with no file
\* chosen), or the chosen files.
Batches == {<<>>, <<NameEmpty>>} \cup UNION { [1..n -> FileNames] : n \in 1..MaxFiles }

\* ------------------------------------------------------------------------
\* app.py: file-name handling
\* ------------------------------------------------------------------------
ExtPdf == Str(<<"p", "d", "f">>)
ALLOWED == { ExtPdf, Str(<<"p", "n", "g">>), Str(<<"j", "p", "g">>), Str(<<"j", "p", "e", "g">>) }

\* Whether the run <<first, last, step, delta>> of a mapping table holds c
InRun(c, r) == r[1] <= c /\ c <= r[2] /\ (c - r[1]) % r[3] = 0

\* What a mapping table makes of c, as a string: the entry of special for c,
\* else c moved by the delta of the run that holds it, else c itself
Mapped(c, runs, special) ==
    IF \E k \in 1..Len(special) : special[k][1] = c
    THEN special[CHOOSE k \in 1..Len(special) : special[k][1] = c][2]
    ELSE IF \E k \in 1..Len(runs) : InRun(c, runs[k])
    THEN <<c + runs[CHOOSE k \in 1..Len(runs) : InRun(c, runs[k])][4]>>
    ELSE <<c>>

\* The characters str.lower() changes into one other character, as runs
\* <<first, last, step, delta>>: every step-th character of first..last
\* becomes the character delta above it
LowerRuns ==
    << <<65, 90, 1, 32>>, <<192, 214, 1, 32>>, <<216, 222, 1, 32>>, <<256, 302,
       2, 1>>, <<306, 310, 2, 1>>, <<313, 327, 2, 1>>, <<330, 374, 2, 1>>,
       <<376, 376, 1, -121>>, <<377, 381, 2, 1>>, <<385, 385, 1, 210>>, <<386,
       388, 2, 1>>, <<390, 390, 1, 206>>, <<391, 391, 1, 1>>, <<393, 394, 1,
       205>>, <<395, 395, 1, 1>>, <<398, 398, 1, 79>>, <<399, 399, 1, 202>>,
       <<400, 400, 1, 203>>, <<401, 401, 1, 1>>, <<403, 403, 1, 205>>, <<404,
       404, 1, 207>>, <<406, 406, 1, 211>>, <<407, 407, 1, 209>>, <<408, 408,
       1, 1>>, <<412, 412, 1, 211>>, <<413, 413, 1, 213>>, <<415, 415, 1,
       214>>, <<416, 420, 2, 1>>, <<422, 422, 1, 218>>, <<423, 423, 1, 1>>,
       <<425, 425, 1, 218>>, <<428, 428, 1, 1>>, <<430, 430, 1, 218>>, <<431,
       431, 1, 1>>, <<433, 434, 1, 217>>, <<435, 437, 2, 1>>, <<439, 439, 1,
       219>>, <<440, 440, 1, 1>>, <<444, 444, 1, 1>>, <<452, 452, 1, 2>>,
       <<453, 453, 1, 1>>, <<455, 455, 1, 2>>, <<456, 456, 1, 1>>, <<458, 458,
       1, 2>>, <<459, 475, 2, 1>>, <<478, 494, 2, 1>>, <<497, 497, 1, 2>>,
       <<498, 500, 2, 1>>, <<502, 502, 1, -97>>, <<503, 503, 1, -56>>, <<504,
       542, 2, 1>>, <<544, 544, 1, -130>>, <<546, 562, 2, 1>>, <<570, 570, 1,
       10795>>, <<571, 571, 1, 1>>, <<573, 573, 1, -163>>, <<574, 574, 1,
       10792>>, <<577, 577, 1, 1>>, <<579, 579, 1, -195>>, <<580, 580, 1, 69>>,
       <<581, 581, 1, 71>>, <<582, 590, 2, 1>>, <<880, 882, 2, 1>>, <<886, 886,
       1, 1>>, <<895, 895, 1, 116>>, <<902, 902, 1, 38>>, <<904, 906, 1, 37>>,
       <<908, 908, 1, 64>>, <<910, 911, 1, 63>>, <<913, 929, 1, 32>>, <<931,
       939, 1, 32>>, <<975, 975, 1, 8>>, <<984, 1006, 2, 1>>, <<1012, 1012, 1,
       -60>>, <<1015, 1015, 1, 1>>, <<1017, 1017, 1, -7>>, <<1018, 1018, 1,
       1>>, <<1021, 1023, 1, -130>>, <<1024, 1039, 1, 80>>, <<1040, 1071, 1,
       32>>, <<1120, 1152, 2, 1>>, <<1162, 1214, 2, 1>>, <<1216, 1216, 1, 15>>,
       <<1217, 1229, 2, 1>>, <<1232, 1326, 2, 1>>, <<1329, 1366, 1, 48>>,
       <<4256, 4293, 1, 7264>>, <<4295, 4295, 1, 7264>>, <<4301, 4301, 1,
       7264>>, <<5024, 5103, 1, 38864>>, <<5104, 5109, 1, 8>>, <<7312, 7354, 1,
       -3008>>, <<7357, 7359, 1, -3008>>, <<7680, 7828, 2, 1>>, <<7838, 7838,
       1, -7615>>, <<7840, 7934, 2, 1>>, <<7944, 7951, 1, -8>>, <<7960, 7965,
       1, -8>>, <<7976, 7983, 1, -8>>, <<7992, 7999, 1, -8>>, <<8008, 8013, 1,
       -8>>, <<8025, 8031, 2, -8>>, <<8040, 8047, 1, -8>>, <<8072, 8079, 1,
       -8>>, <<8088, 8095, 1, -8>>, <<8104, 8111, 1, -8>>, <<8120, 8121, 1,
       -8>>, <<8122, 8123, 1, -74>>, <<8124, 8124, 1, -9>>, <<8136, 8139, 1,
       -86>>, <<8140, 8140, 1, -9>>, <<8152, 8153, 1, -8>>, <<8154, 8155, 1,
       -100>>, <<8168, 8169, 1, -8>>, <<8170, 8171, 1, -112>>, <<8172, 8172, 1,
       -7>>, <<8184, 8185, 1, -128>>, <<8186, 8187, 1, -126>>, <<8188, 8188, 1,
       -9>>, <<8486, 8486, 1, -7517>>, <<8490, 8490, 1, -8383>>, <<8491, 8491,
       1, -8262>>, <<8498, 8498, 1, 28>>, <<8544, 8559, 1, 16>>, <<8579, 8579,
       1, 1>>, <<9398, 9423, 1, 26>>, <<11264, 11311, 1, 48>>, <<11360, 11360,
       1, 1>>, <<11362, 11362, 1, -10743>>, <<11363, 11363, 1, -3814>>,
       <<11364, 11364, 1, -10727>>, <<11367, 11371, 2, 1>>, <<11373, 11373, 1,
       -10780>>, <<11374, 11374, 1, -10749>>, <<11375, 11375, 1, -10783>>,
       <<11376, 11376, 1, -10782>>, <<11378, 11378, 1, 1>>, <<11381, 11381, 1,
       1>>, <<11390, 11391, 1, -10815>>, <<11392, 11490, 2, 1>>, <<11499,
       11501, 2, 1>>, <<11506, 11506, 1, 1>>, <<42560, 42604, 2, 1>>, <<42624,
       42650, 2, 1>>, <<42786, 42798, 2, 1>>, <<42802, 42862, 2, 1>>, <<42873,
       42875, 2, 1>>, <<42877, 42877, 1, -35332>>, <<42878, 42886, 2, 1>>,
       <<42891, 42891, 1, 1>>, <<42893, 42893, 1, -42280>>, <<42896, 42898, 2,
       1>>, <<42902, 42920, 2, 1>>, <<42922, 42922, 1, -42308>>, <<42923,
       42923, 1, -42319>>, <<42924, 42924, 1, -42315>>, <<42925, 42925, 1,
       -42305>>, <<42926, 42926, 1, -42308>>, <<42928, 42928, 1, -42258>>,
       <<42929, 42929, 1, -42282>>, <<42930, 42930, 1, -42261>>, <<42931,
       42931, 1, 928>>, <<42932, 42946, 2, 1>>, <<42948, 42948, 1, -48>>,
       <<42949, 42949, 1, -42307>>, <<42950, 42950, 1, -35384>>, <<42951,
       42953, 2, 1>>, <<42960, 42960, 1, 1>>, <<42966, 42968, 2, 1>>, <<42997,
       42997, 1, 1>>, <<65313, 65338, 1, 32>>, <<66560, 66599, 1, 40>>,
       <<66736, 66771, 1, 40>>, <<66928, 66938, 1, 39>>, <<66940, 66954, 1,
       39>>, <<66956, 66962, 1, 39>>, <<66964, 66965, 1, 39>>, <<68736, 68786,
       1, 64>>, <<71840, 71871, 1, 32>>, <<93760, 93791, 1, 32>>, <<125184,
       125217, 1, 34>> >>
\* The character str.lower() changes into more than one
LowerSpecial ==
    << <<304, <<105, 775>>>> >>
\* The ranges of the cased characters, and of those a case mapping ignores
\* when it looks for the cased character next to a capital sigma
CasedRanges ==
    << <<65, 90>>, <<97, 122>>, <<170, 170>>, <<181, 181>>, <<186, 186>>,
       <<192, 214>>, <<216, 246>>, <<248, 442>>, <<444, 447>>, <<452, 659>>,
       <<661, 696>>, <<704, 705>>, <<736, 740>>, <<837, 837>>, <<880, 883>>,
       <<886, 887>>, <<890, 893>>, <<895, 895>>, <<902, 902>>, <<904, 906>>,
       <<908, 908>>, <<910, 929>>, <<931, 1013>>, <<1015, 1153>>, <<1162,
       1327>>, <<1329, 1366>>, <<1376, 1416>>, <<4256, 4293>>, <<4295, 4295>>,
       <<4301, 4301>>, <<4304, 4346>>, <<4349, 4351>>, <<5024, 5109>>, <<5112,
       5117>>, <<7296, 7304>>, <<7312, 7354>>, <<7357, 7359>>, <<7424, 7615>>,
       <<7680, 7957>>, <<7960, 7965>>, <<7968, 8005>>, <<8008, 8013>>, <<8016,
       8023>>, <<8025, 8025>>, <<8027, 8027>>, <<8029, 8029>>, <<8031, 8061>>,
       <<8064, 8116>>, <<8118, 8124>>, <<8126, 8126>>, <<8130, 8132>>, <<8134,
       8140>>, <<8144, 8147>>, <<8150, 8155>>, <<8160, 8172>>, <<8178, 8180>>,
       <<8182, 8188>>, <<8305, 8305>>, <<8319, 8319>>, <<8336, 8348>>, <<8450,
       8450>>, <<8455, 8455>>, <<8458, 8467>>, <<8469, 8469>>, <<8473, 8477>>,
       <<8484, 8484>>, <<8486, 8486>>, <<8488, 8488>>, <<8490, 8493>>, <<8495,
       8500>>, <<8505, 8505>>, <<8508, 8511>>, <<8517, 8521>>, <<8526, 8526>>,
       <<8544, 8575>>, <<8579, 8580>>, <<9398, 9449>>, <<11264, 11492>>,
       <<11499, 11502>>, <<11506, 11507>>, <<11520, 11557>>, <<11559, 11559>>,
       <<11565, 11565>>, <<42560, 42605>>, <<42624, 42653>>, <<42786, 42887>>,
       <<42891, 42894>>, <<42896, 42954>>, <<42960, 42961>>, <<42963, 42963>>,
       <<42965, 42969>>, <<42997, 42998>>, <<43000, 43002>>, <<43824, 43866>>,
       <<43868, 43880>>, <<43888, 43967>>, <<64256, 64262>>, <<64275, 64279>>,
       <<65313, 65338>>, <<65345, 65370>>, <<66560, 66639>>, <<66736, 66771>>,
       <<66776, 66811>>, <<66928, 66938>>, <<66940, 66954>>, <<66956, 66962>>,
       <<66964, 66965>>, <<66967, 66977>>, <<66979, 66993>>, <<66995, 67001>>,
       <<67003, 67004>>, <<67456, 67456>>, <<67459, 67461>>, <<67463, 67504>>,
       <<67506, 67514>>, <<68736, 68786>>, <<68800, 68850>>, <<71840, 71903>>,
       <<93760, 93823>>, <<119808, 119892>>, <<119894, 119964>>, <<119966,
       119967>>, <<119970, 119970>>, <<119973, 119974>>, <<119977, 119980>>,
       <<119982, 119993>>, <<119995, 119995>>, <<119997, 120003>>, <<120005,
       120069>>, <<120071, 120074>>, <<120077, 120084>>, <<120086, 120092>>,
       <<120094, 120121>>, <<120123, 120126>>, <<120128, 120132>>, <<120134,
       120134>>, <<120138, 120144>>, <<120146, 120485>>, <<120488, 120512>>,
       <<120514, 120538>>, <<120540, 120570>>, <<120572, 120596>>, <<120598,
       120628>>, <<120630, 120654>>, <<120656, 120686>>, <<120688, 120712>>,
       <<120714, 120744>>, <<120746, 120770>>, <<120772, 120779>>, <<122624,
       122633>>, <<122635, 122654>>, <<125184, 125251>>, <<127280, 127305>>,
       <<127312, 127337>>, <<127344, 127369>> >>
CaseIgnorableRanges ==
    << <<39, 39>>, <<46, 46>>, <<58, 58>>, <<94, 94>>, <<96, 96>>, <<168,
       168>>, <<173, 173>>, <<175, 175>>, <<180, 180>>, <<183, 184>>, <<688,
       879>>, <<884, 885>>, <<890, 890>>, <<900, 901>>, <<903, 903>>, <<1155,
       1161>>, <<1369, 1369>>, <<1375, 1375>>, <<1425, 1469>>, <<1471, 1471>>,
       <<1473, 1474>>, <<1476, 1477>>, <<1479, 1479>>, <<1524, 1524>>, <<1536,
       1541>>, <<1552, 1562>>, <<1564, 1564>>, <<1600, 1600>>, <<1611, 1631>>,
       <<1648, 1648>>, <<1750, 1757>>, <<1759, 1768>>, <<1770, 1773>>, <<1807,
       1807>>, <<1809, 1809>>, <<1840, 1866>>, <<1958, 1968>>, <<2027, 2037>>,
       <<2042, 2042>>, <<2045, 2045>>, <<2070, 2093>>, <<2137, 2139>>, <<2184,
       2184>>, <<2192, 2193>>, <<2200, 2207>>, <<2249, 2306>>, <<2362, 2362>>,
       <<2364, 2364>>, <<2369, 2376>>, <<2381, 2381>>, <<2385, 2391>>, <<2402,
       2403>>, <<2417, 2417>>, <<2433, 2433>>, <<2492, 2492>>, <<2497, 2500>>,
       <<2509, 2509>>, <<2530, 2531>>, <<2558, 2558>>, <<2561, 2562>>, <<2620,
       2620>>, <<2625, 2626>>, <<2631, 2632>>, <<2635, 2637>>, <<2641, 2641>>,
       <<2672, 2673>>, <<2677, 2677>>, <<2689, 2690>>, <<2748, 2748>>, <<2753,
       2757>>, <<2759, 2760>>, <<2765, 2765>>, <<2786, 2787>>, <<2810, 2815>>,
       <<2817, 2817>>, <<2876, 2876>>, <<2879, 2879>>, <<2881, 2884>>, <<2893,
       2893>>, <<2901, 2902>>, <<2914, 2915>>, <<2946, 2946>>, <<3008, 3008>>,
       <<3021, 3021>>, <<3072, 3072>>, <<3076, 3076>>, <<3132, 3132>>, <<3134,
       3136>>, <<3142, 3144>>, <<3146, 3149>>, <<3157, 3158>>, <<3170, 3171>>,
       <<3201, 3201>>, <<3260, 3260>>, <<3263, 3263>>, <<3270, 3270>>, <<3276,
       3277>>, <<3298, 3299>>, <<3328, 3329>>, <<3387, 3388>>, <<3393, 3396>>,
       <<3405, 3405>>, <<3426, 3427>>, <<3457, 3457>>, <<3530, 3530>>, <<3538,
       3540>>, <<3542, 3542>>, <<3633, 3633>>, <<3636, 3642>>, <<3654, 3662>>,
       <<3761, 3761>>, <<3764, 3772>>, <<3782, 3782>>, <<3784, 3789>>, <<3864,
       3865>>, <<3893, 3893>>, <<3895, 3895>>, <<3897, 3897>>, <<3953, 3966>>,
       <<3968, 3972>>, <<3974, 3975>>, <<3981, 3991>>, <<3993, 4028>>, <<4038,
       4038>>, <<4141, 4144>>, <<4146, 4151>>, <<4153, 4154>>, <<4157, 4158>>,
       <<4184, 4185>>, <<4190, 4192>>, <<4209, 4212>>, <<4226, 4226>>, <<4229,
       4230>>, <<4237, 4237>>, <<4253, 4253>>, <<4348, 4348>>, <<4957, 4959>>,
       <<5906, 5908>>, <<5938, 5939>>, <<5970, 5971>>, <<6002, 6003>>, <<6068,
       6069>>, <<6071, 6077>>, <<6086, 6086>>, <<6089, 6099>>, <<6103, 6103>>,
       <<6109, 6109>>, <<6155, 6159>>, <<6211, 6211>>, <<6277, 6278>>, <<6313,
       6313>>, <<6432, 6434>>, <<6439, 6440>>, <<6450, 6450>>, <<6457, 6459>>,
       <<6679, 6680>>, <<6683, 6683>>, <<6742, 6742>>, <<6744, 6750>>, <<6752,
       6752>>, <<6754, 6754>>, <<6757, 6764>>, <<6771, 6780>>, <<6783, 6783>>,
       <<6823, 6823>>, <<6832, 6862>>, <<6912, 6915>>, <<6964, 6964>>, <<6966,
       6970>>, <<6972, 6972>>, <<6978, 6978>>, <<7019, 7027>>, <<7040, 7041>>,
       <<7074, 7077>>, <<7080, 7081>>, <<7083, 7085>>, <<7142, 7142>>, <<7144,
       7145>>, <<7149, 7149>>, <<7151, 7153>>, <<7212, 7219>>, <<7222, 7223>>,
       <<7288, 7293>>, <<7376, 7378>>, <<7380, 7392>>, <<7394, 7400>>, <<7405,
       7405>>, <<7412, 7412>>, <<7416, 7417>>, <<7468, 7530>>, <<7544, 7544>>,
       <<7579, 7679>>, <<8125, 8125>>, <<8127, 8129>>, <<8141, 8143>>, <<8157,
       8159>>, <<8173, 8175>>, <<8189, 8190>>, <<8203, 8207>>, <<8216, 8217>>,
       <<8228, 8228>>, <<8231, 8231>>, <<8234, 8238>>, <<8288, 8292>>, <<8294,
       8303>>, <<8305, 8305>>, <<8319, 8319>>, <<8336, 8348>>, <<8400, 8432>>,
       <<11388, 11389>>, <<11503, 11505>>, <<11631, 11631>>, <<11647, 11647>>,
       <<11744, 11775>>, <<11823, 11823>>, <<12293, 12293>>, <<12330, 12333>>,
       <<12337, 12341>>, <<12347, 12347>>, <<12441, 12446>>, <<12540, 12542>>,
       <<40981, 40981>>, <<42232, 42237>>, <<42508, 42508>>, <<42607, 42610>>,
       <<42612, 42621>>, <<42623, 42623>>, <<42652, 42655>>, <<42736, 42737>>,
       <<42752, 42785>>, <<42864, 42864>>, <<42888, 42890>>, <<42994, 42996>>,
       <<43000, 43001>>, <<43010, 43010>>, <<43014, 43014>>, <<43019, 43019>>,
       <<43045, 43046>>, <<43052, 43052>>, <<43204, 43205>>, <<43232, 43249>>,
       <<43263, 43263>>, <<43302, 43309>>, <<43335, 43345>>, <<43392, 43394>>,
       <<43443, 43443>>, <<43446, 43449>>, <<43452, 43453>>, <<43471, 43471>>,
       <<43493, 43494>>, <<43561, 43566>>, <<43569, 43570>>, <<43573, 43574>>,
       <<43587, 43587>>, <<43596, 43596>>, <<43632, 43632>>, <<43644, 43644>>,
       <<43696, 43696>>, <<43698, 43700>>, <<43703, 43704>>, <<43710, 43711>>,
       <<43713, 43713>>, <<43741, 43741>>, <<43756, 43757>>, <<43763, 43764>>,
       <<43766, 43766>>, <<43867, 43871>>, <<43881, 43883>>, <<44005, 44005>>,
       <<44008, 44008>>, <<44013, 44013>>, <<64286, 64286>>, <<64434, 64450>>,
       <<65024, 65039>>, <<65043, 65043>>, <<65056, 65071>>, <<65106, 65106>>,
       <<65109, 65109>>, <<65279, 65279>>, <<65287, 65287>>, <<65294, 65294>>,
       <<65306, 65306>>, <<65342, 65342>>, <<65344, 65344>>, <<65392, 65392>>,
       <<65438, 65439>>, <<65507, 65507>>, <<65529, 65531>>, <<66045, 66045>>,
       <<66272, 66272>>, <<66422, 66426>>, <<67456, 67461>>, <<67463, 67504>>,
       <<67506, 67514>>, <<68097, 68099>>, <<68101, 68102>>, <<68108, 68111>>,
       <<68152, 68154>>, <<68159, 68159>>, <<68325, 68326>>, <<68900, 68903>>,
       <<69291, 69292>>, <<69446, 69456>>, <<69506, 69509>>, <<69633, 69633>>,
       <<69688, 69702>>, <<69744, 69744>>, <<69747, 69748>>, <<69759, 69761>>,
       <<69811, 69814>>, <<69817, 69818>>, <<69821, 69821>>, <<69826, 69826>>,
       <<69837, 69837>>, <<69888, 69890>>, <<69927, 69931>>, <<69933, 69940>>,
       <<70003, 70003>>, <<70016, 70017>>, <<70070, 70078>>, <<70089, 70092>>,
       <<70095, 70095>>, <<70191, 70193>>, <<70196, 70196>>, <<70198, 70199>>,
       <<70206, 70206>>, <<70367, 70367>>, <<70371, 70378>>, <<70400, 70401>>,
       <<70459, 70460>>, <<70464, 70464>>, <<70502, 70508>>, <<70512, 70516>>,
       <<70712, 70719>>, <<70722, 70724>>, <<70726, 70726>>, <<70750, 70750>>,
       <<70835, 70840>>, <<70842, 70842>>, <<70847, 70848>>, <<70850, 70851>>,
       <<71090, 71093>>, <<71100, 71101>>, <<71103, 71104>>, <<71132, 71133>>,
       <<71219, 71226>>, <<71229, 71229>>, <<71231, 71232>>, <<71339, 71339>>,
       <<71341, 71341>>, <<71344, 71349>>, <<71351, 71351>>, <<71453, 71455>>,
       <<71458, 71461>>, <<71463, 71467>>, <<71727, 71735>>, <<71737, 71738>>,
       <<71995, 71996>>, <<71998, 71998>>, <<72003, 72003>>, <<72148, 72151>>,
       <<72154, 72155>>, <<72160, 72160>>, <<72193, 72202>>, <<72243, 72248>>,
       <<72251, 72254>>, <<72263, 72263>>, <<72273, 72278>>, <<72281, 72283>>,
       <<72330, 72342>>, <<72344, 72345>>, <<72752, 72758>>, <<72760, 72765>>,
       <<72767, 72767>>, <<72850, 72871>>, <<72874, 72880>>, <<72882, 72883>>,
       <<72885, 72886>>, <<73009, 73014>>, <<73018, 73018>>, <<73020, 73021>>,
       <<73023, 73029>>, <<73031, 73031>>, <<73104, 73105>>, <<73109, 73109>>,
       <<73111, 73111>>, <<73459, 73460>>, <<78896, 78904>>, <<92912, 92916>>,
       <<92976, 92982>>, <<92992, 92995>>, <<94031, 94031>>, <<94095, 94111>>,
       <<94176, 94177>>, <<94179, 94180>>, <<110576, 110579>>, <<110581,
       110587>>, <<110589, 110590>>, <<113821, 113822>>, <<113824, 113827>>,
       <<118528, 118573>>, <<118576, 118598>>, <<119143, 119145>>, <<119155,
       119170>>, <<119173, 119179>>, <<119210, 119213>>, <<119362, 119364>>,
       <<121344, 121398>>, <<121403, 121452>>, <<121461, 121461>>, <<121476,
       121476>>, <<121499, 121503>>, <<121505, 121519>>, <<122880, 122886>>,
       <<122888, 122904>>, <<122907, 122913>>, <<122915, 122916>>, <<122918,
       122922>>, <<123184, 123197>>, <<123566, 123566>>, <<123628, 123631>>,
       <<125136, 125142>>, <<125252, 125259>>, <<127995, 127999>>, <<917505,
       917505>>, <<917536, 917631>>, <<917760, 917999>> >>
Cased == CharsOf(CasedRanges)
CaseIgnorable == CharsOf(CaseIgnorableRanges)

\* The lower case of one character on its own, as a string
LowerChar(c) == Mapped(c, LowerRuns, LowerSpecial)

\* The characters str.capitalize() changes in first place into one other
\* character, as runs, and those it changes into more than one
TitleRuns ==
    << <<97, 122, 1, -32>>, <<181, 181, 1, 743>>, <<224, 246, 1, -32>>, <<248,
       254, 1, -32>>, <<255, 255, 1, 121>>, <<257, 303, 2, -1>>, <<305, 305, 1,
       -232>>, <<307, 311, 2, -1>>, <<314, 328, 2, -1>>, <<331, 375, 2, -1>>,
       <<378, 382, 2, -1>>, <<383, 383, 1, -300>>, <<384, 384, 1, 195>>, <<387,
       389, 2, -1>>, <<392, 392, 1, -1>>, <<396, 396, 1, -1>>, <<402, 402, 1,
       -1>>, <<405, 405, 1, 97>>, <<409, 409, 1, -1>>, <<410, 410, 1, 163>>,
       <<414, 414, 1, 130>>, <<417, 421, 2, -1>>, <<424, 424, 1, -1>>, <<429,
       429, 1, -1>>, <<432, 432, 1, -1>>, <<436, 438, 2, -1>>, <<441, 441, 1,
       -1>>, <<445, 445, 1, -1>>, <<447, 447, 1, 56>>, <<452, 452, 1, 1>>,
       <<454, 454, 1, -1>>, <<455, 455, 1, 1>>, <<457, 457, 1, -1>>, <<458,
       458, 1, 1>>, <<460, 476, 2, -1>>, <<477, 477, 1, -79>>, <<479, 495, 2,
       -1>>, <<497, 497, 1, 1>>, <<499, 501, 2, -1>>, <<505, 543, 2, -1>>,
       <<547, 563, 2, -1>>, <<572, 572, 1, -1>>, <<575, 576, 1, 10815>>, <<578,
       578, 1, -1>>, <<583, 591, 2, -1>>, <<592, 592, 1, 10783>>, <<593, 593,
       1, 10780>>, <<594, 594, 1, 10782>>, <<595, 595, 1, -210>>, <<596, 596,
       1, -206>>, <<598, 599, 1, -205>>, <<601, 601, 1, -202>>, <<603, 603, 1,
       -203>>, <<604, 604, 1, 42319>>, <<608, 608, 1, -205>>, <<609, 609, 1,
       42315>>, <<611, 611, 1, -207>>, <<613, 613, 1, 42280>>, <<614, 614, 1,
       42308>>, <<616, 616, 1, -209>>, <<617, 617, 1, -211>>, <<618, 618, 1,
       42308>>, <<619, 619, 1, 10743>>, <<620, 620, 1, 42305>>, <<623, 623, 1,
       -211>>, <<625, 625, 1, 10749>>, <<626, 626, 1, -213>>, <<629, 629, 1,
       -214>>, <<637, 637, 1, 10727>>, <<640, 640, 1, -218>>, <<642, 642, 1,
       42307>>, <<643, 643, 1, -218>>, <<647, 647, 1, 42282>>, <<648, 648, 1,
       -218>>, <<649, 649, 1, -69>>, <<650, 651, 1, -217>>, <<652, 652, 1,
       -71>>, <<658, 658, 1, -219>>, <<669, 669, 1, 42261>>, <<670, 670, 1,
       42258>>, <<837, 837, 1, 84>>, <<881, 883, 2, -1>>, <<887, 887, 1, -1>>,
       <<891, 893, 1, 130>>, <<940, 940, 1, -38>>, <<941, 943, 1, -37>>, <<945,
       961, 1, -32>>, <<962, 962, 1, -31>>, <<963, 971, 1, -32>>, <<972, 972,
       1, -64>>, <<973, 974, 1, -63>>, <<976, 976, 1, -62>>, <<977, 977, 1,
       -57>>, <<981, 981, 1, -47>>, <<982, 982, 1, -54>>, <<983, 983, 1, -8>>,
       <<985, 1007, 2, -1>>, <<1008, 1008, 1, -86>>, <<1009, 1009, 1, -80>>,
       <<1010, 1010, 1, 7>>, <<1011, 1011, 1, -116>>, <<1013, 1013, 1, -96>>,
       <<1016, 1016, 1, -1>>, <<1019, 1019, 1, -1>>, <<1072, 1103, 1, -32>>,
       <<1104, 1119, 1, -80>>, <<1121, 1153, 2, -1>>, <<1163, 1215, 2, -1>>,
       <<1218, 1230, 2, -1>>, <<1231, 1231, 1, -15>>, <<1233, 1327, 2, -1>>,
       <<1377, 1414, 1, -48>>, <<5112, 5117, 1, -8>>, <<7296, 7296, 1, -6254>>,
       <<7297, 7297, 1, -6253>>, <<7298, 7298, 1, -6244>>, <<7299, 7300, 1,
       -6242>>, <<7301, 7301, 1, -6243>>, <<7302, 7302, 1, -6236>>, <<7303,
       7303, 1, -6181>>, <<7304, 7304, 1, 35266>>, <<7545, 7545, 1, 35332>>,
       <<7549, 7549, 1, 3814>>, <<7566, 7566, 1, 35384>>, <<7681, 7829, 2,
       -1>>, <<7835, 7835, 1, -59>>, <<7841, 7935, 2, -1>>, <<7936, 7943, 1,
       8>>, <<7952, 7957, 1, 8>>, <<7968, 7975, 1, 8>>, <<7984, 7991, 1, 8>>,
       <<8000, 8005, 1, 8>>, <<8017, 8023, 2, 8>>, <<8032, 8039, 1, 8>>,
       <<8048, 8049, 1, 74>>, <<8050, 8053, 1, 86>>, <<8054, 8055, 1, 100>>,
       <<8056, 8057, 1, 128>>, <<8058, 8059, 1, 112>>, <<8060, 8061, 1, 126>>,
       <<8064, 8071, 1, 8>>, <<8080, 8087, 1, 8>>, <<8096, 8103, 1, 8>>,
       <<8112, 8113, 1, 8>>, <<8115, 8115, 1, 9>>, <<8126, 8126, 1, -7205>>,
       <<8131, 8131, 1, 9>>, <<8144, 8145, 1, 8>>, <<8160, 8161, 1, 8>>,
       <<8165, 8165, 1, 7>>, <<8179, 8179, 1, 9>>, <<8526, 8526, 1, -28>>,
       <<8560, 8575, 1, -16>>, <<8580, 8580, 1, -1>>, <<9424, 9449, 1, -26>>,
       <<11312, 11359, 1, -48>>, <<11361, 11361, 1, -1>>, <<11365, 11365, 1,
       -10795>>, <<11366, 11366, 1, -10792>>, <<11368, 11372, 2, -1>>, <<11379,
       11379, 1, -1>>, <<11382, 11382, 1, -1>>, <<11393, 11491, 2, -1>>,
       <<11500, 11502, 2, -1>>, <<11507, 11507, 1, -1>>, <<11520, 11557, 1,
       -7264>>, <<11559, 11559, 1, -7264>>, <<11565, 11565, 1, -7264>>,
       <<42561, 42605, 2, -1>>, <<42625, 42651, 2, -1>>, <<42787, 42799, 2,
       -1>>, <<42803, 42863, 2, -1>>, <<42874, 42876, 2, -1>>, <<42879, 42887,
       2, -1>>, <<42892, 42892, 1, -1>>, <<42897, 42899, 2, -1>>, <<42900,
       42900, 1, 48>>, <<42903, 42921, 2, -1>>, <<42933, 42947, 2, -1>>,
       <<42952, 42954, 2, -1>>, <<42961, 42961, 1, -1>>, <<42967, 42969, 2,
       -1>>, <<42998, 42998, 1, -1>>, <<43859, 43859, 1, -928>>, <<43888,
       43967, 1, -38864>>, <<65345, 65370, 1, -32>>, <<66600, 66639, 1, -40>>,
       <<66776, 66811, 1, -40>>, <<66967, 66977, 1, -39>>, <<66979, 66993, 1,
       -39>>, <<66995, 67001, 1, -39>>, <<67003, 67004, 1, -39>>, <<68800,
       68850, 1, -64>>, <<71872, 71903, 1, -32>>, <<93792, 93823, 1, -32>>,
       <<125218, 125251, 1, -34>> >>
TitleSpecial ==
    << <<223, <<83, 115>>>>, <<329, <<700, 78>>>>, <<496, <<74, 780>>>>, <<912,
       <<921, 776, 769>>>>, <<944, <<933, 776, 769>>>>, <<1415, <<1333,
       1410>>>>, <<7830, <<72, 817>>>>, <<7831, <<84, 776>>>>, <<7832, <<87,
       778>>>>, <<7833, <<89, 778>>>>, <<7834, <<65, 702>>>>, <<8016, <<933,
       787>>>>, <<8018, <<933, 787, 768>>>>, <<8020, <<933, 787, 769>>>>,
       <<8022, <<933, 787, 834>>>>, <<8114, <<8122, 837>>>>, <<8116, <<902,
       837>>>>, <<8118, <<913, 834>>>>, <<8119, <<913, 834, 837>>>>, <<8130,
       <<8138, 837>>>>, <<8132, <<905, 837>>>>, <<8134, <<919, 834>>>>, <<8135,
       <<919, 834, 837>>>>, <<8146, <<921, 776, 768>>>>, <<8147, <<921, 776,
       769>>>>, <<8150, <<921, 834>>>>, <<8151, <<921, 776, 834>>>>, <<8162,
       <<933, 776, 768>>>>, <<8163, <<933, 776, 769>>>>, <<8164, <<929,
       787>>>>, <<8166, <<933, 834>>>>, <<8167, <<933, 776, 834>>>>, <<8178,
       <<8186, 837>>>>, <<8180, <<911, 837>>>>, <<8182, <<937, 834>>>>, <<8183,
       <<937, 834, 837>>>>, <<64256, <<70, 102>>>>, <<64257, <<70, 105>>>>,
       <<64258, <<70, 108>>>>, <<64259, <<70, 102, 105>>>>, <<64260, <<70, 102,
       108>>>>, <<64261, <<83, 116>>>>, <<64262, <<83, 116>>>>, <<64275,
       <<1348, 1398>>>>, <<64276, <<1348, 1381>>>>, <<64277, <<1348, 1387>>>>,
       <<64278, <<1358, 1398>>>>, <<64279, <<1348, 1389>>>> >>
\* The first character of a capitalized string, as a string
TitleChar(c) == Mapped(c, TitleRuns, TitleSpecial)

\* Capital sigma U+03A3, small sigma U+03C3, final small sigma U+03C2
CapitalSigma == 931
SmallSigma == 963
FinalSmallSigma == 962

\* Whether the capital sigma at i ends a word: a cased character comes before
\* it and none after it, case-ignorable characters skipped on both sides
FinalSigma(s, i) ==
    /\ RunStart(s, i - 1, CaseIgnorable) >= 1
    /\ s[RunStart(s, i - 1, CaseIgnorable)] \in Cased
    /\ \/ RunEnd(s, i + 1, CaseIgnorable) > Len(s)
       \/ s[RunEnd(s, i + 1, CaseIgnorable)] \notin Cased

\* The lower case of the character at i of s, as a string
LowerAt(s, i) ==
    IF s[i] = CapitalSigma
    THEN <<IF FinalSigma(s, i) THEN FinalSmallSigma ELSE SmallSigma>>
    ELSE LowerChar(s[i])

\* The lower case of s from i on
RECURSIVE LowerFrom(_, _)
LowerFrom(s, i) ==
    IF i > Len(s) THEN <<>> ELSE LowerAt(s, i) \o LowerFrom(s, i + 1)

\* str.lower()
Lower(s) == LowerFrom(s, 1)

\* Index of the last "." of s, 0 when s holds none
LastDot(s) ==
    LET ds == {k \in 1..Len(s) : s[k] = DOT}
    IN  IF ds = {} THEN 0 ELSE CHOOSE d \in ds : \A k \in ds : d >= k

\* s.rsplit(".", 1): one part when s holds no dot, else two
rsplit_dot(s) ==
    IF LastDot(s) = 0 THEN <<s>>
    ELSE <<SubSeq(s, 1, LastDot(s) - 1), SubSeq(s, LastDot(s) + 1, Len(s))>>

allowed_any_extension(filename) == LastDot(filename) > 0

allowed(filename) ==
    /\ LastDot(filename) > 0
    /\ Lower(rsplit_dot(filename)[2]) \in ALLOWED

\* "_".join(s.split()): whitespace trimmed, inner whitespace runs become "_"
RECURSIVE UnderscoreRuns(_, _)
UnderscoreRuns(s, i) ==
    IF i > Len(s) THEN <<>>
    ELSE IF s[i] \in Space
         THEN <<UNDERSCORE>> \o UnderscoreRuns(s, RunEnd(s, i, Space))
         ELSE <<s[i]>> \o UnderscoreRuns(s, i + 1)

SelectChars(s, C) == SelectSeq(s, LAMBDA c : c \in C)

\* The characters above U+007F of which unicodedata.normalize("NFKD", ...)
\* followed by .encode("ascii", "ignore") leaves one character, as runs
\* <<first, last, step, delta>>, and those of which it leaves more than one
FoldRuns ==
    << <<160, 160, 1, -128>>, <<168, 168, 1, -136>>, <<170, 170, 1, -73>>,
       <<175, 175, 1, -143>>, <<178, 179, 1, -128>>, <<180, 180, 1, -148>>,
       <<184, 184, 1, -152>>, <<185, 185, 1, -136>>, <<186, 186, 1, -75>>,
       <<192, 192, 1, -127>>, <<193, 193, 1, -128>>, <<194, 194, 1, -129>>,
       <<195, 195, 1, -130>>, <<196, 196, 1, -131>>, <<197, 199, 2, -132>>,
       <<200, 200, 1, -131>>, <<201, 201, 1, -132>>, <<202, 202, 1, -133>>,
       <<203, 203, 1, -134>>, <<204, 204, 1, -131>>, <<205, 205, 1, -132>>,
       <<206, 206, 1, -133>>, <<207, 207, 1, -134>>, <<209, 210, 1, -131>>,
       <<211, 211, 1, -132>>, <<212, 212, 1, -133>>, <<213, 213, 1, -134>>,
       <<214, 214, 1, -135>>, <<217, 217, 1, -132>>, <<218, 218, 1, -133>>,
       <<219, 219, 1, -134>>, <<220, 220, 1, -135>>, <<221, 221, 1, -132>>,
       <<224, 224, 1, -127>>, <<225, 225, 1, -128>>, <<226, 226, 1, -129>>,
       <<227, 227, 1, -130>>, <<228, 228, 1, -131>>, <<229, 231, 2, -132>>,
       <<232, 232, 1, -131>>, <<233, 233, 1, -132>>, <<234, 234, 1, -133>>,
       <<235, 235, 1, -134>>, <<236, 236, 1, -131>>, <<237, 237, 1, -132>>,
       <<238, 238, 1, -133>>, <<239, 239, 1, -134>>, <<241, 242, 1, -131>>,
       <<243, 243, 1, -132>>, <<244, 244, 1, -133>>, <<245, 245, 1, -134>>,
       <<246, 246, 1, -135>>, <<249, 249, 1, -132>>, <<250, 250, 1, -133>>,
       <<251, 251, 1, -134>>, <<252, 252, 1, -135>>, <<253, 253, 1, -132>>,
       <<255, 255, 1, -134>>, <<256, 256, 1, -191>>, <<257, 257, 1, -160>>,
       <<258, 258, 1, -193>>, <<259, 259, 1, -162>>, <<260, 260, 1, -195>>,
       <<261, 261, 1, -164>>, <<262, 262, 1, -195>>, <<263, 263, 1, -164>>,
       <<264, 264, 1, -197>>, <<265, 265, 1, -166>>, <<266, 266, 1, -199>>,
       <<267, 267, 1, -168>>, <<268, 268, 1, -201>>, <<269, 269, 1, -170>>,
       <<270, 270, 1, -202>>, <<271, 271, 1, -171>>, <<274, 274, 1, -205>>,
       <<275, 275, 1, -174>>, <<276, 276, 1, -207>>, <<277, 277, 1, -176>>,
       <<278, 278, 1, -209>>, <<279, 279, 1, -178>>, <<280, 280, 1, -211>>,
       <<281, 281, 1, -180>>, <<282, 282, 1, -213>>, <<283, 283, 1, -182>>,
       <<284, 284, 1, -213>>, <<285, 285, 1, -182>>, <<286, 286, 1, -215>>,
       <<287, 287, 1, -184>>, <<288, 288, 1, -217>>, <<289, 289, 1, -186>>,
       <<290, 290, 1, -219>>, <<291, 291, 1, -188>>, <<292, 292, 1, -220>>,
       <<293, 293, 1, -189>>, <<296, 296, 1, -223>>, <<297, 297, 1, -192>>,
       <<298, 298, 1, -225>>, <<299, 299, 1, -194>>, <<300, 300, 1, -227>>,
       <<301, 301, 1, -196>>, <<302, 302, 1, -229>>, <<303, 303, 1, -198>>,
       <<304, 304, 1, -231>>, <<308, 308, 1, -234>>, <<309, 309, 1, -203>>,
       <<310, 310, 1, -235>>, <<311, 311, 1, -204>>, <<313, 313, 1, -237>>,
       <<314, 314, 1, -206>>, <<315, 315, 1, -239>>, <<316, 316, 1, -208>>,
       <<317, 317, 1, -241>>, <<318, 318, 1, -210>>, <<319, 319, 1, -243>>,
       <<320, 320, 1, -212>>, <<323, 323, 1, -245>>, <<324, 324, 1, -214>>,
       <<325, 325, 1, -247>>, <<326, 326, 1, -216>>, <<327, 327, 1, -249>>,
       <<328, 328, 1, -218>>, <<329, 329, 1, -219>>, <<332, 332, 1, -253>>,
       <<333, 333, 1, -222>>, <<334, 334, 1, -255>>, <<335, 335, 1, -224>>,
       <<336, 336, 1, -257>>, <<337, 337, 1, -226>>, <<340, 340, 1, -258>>,
       <<341, 341, 1, -227>>, <<342, 342, 1, -260>>, <<343, 343, 1, -229>>,
       <<344, 344, 1, -262>>, <<345, 345, 1, -231>>, <<346, 346, 1, -263>>,
       <<347, 347, 1, -232>>, <<348, 348, 1, -265>>, <<349, 349, 1, -234>>,
       <<350, 350, 1, -267>>, <<351, 351, 1, -236>>, <<352, 352, 1, -269>>,
       <<353, 353, 1, -238>>, <<354, 354, 1, -270>>, <<355, 355, 1, -239>>,
       <<356, 356, 1, -272>>, <<357, 357, 1, -241>>, <<360, 360, 1, -275>>,
       <<361, 361, 1, -244>>, <<362, 362, 1, -277>>, <<363, 363, 1, -246>>,
       <<364, 364, 1, -279>>, <<365, 365, 1, -248>>, <<366, 366, 1, -281>>,
       <<367, 367, 1, -250>>, <<368, 368, 1, -283>>, <<369, 369, 1, -252>>,
       <<370, 370, 1, -285>>, <<371, 371, 1, -254>>, <<372, 372, 1, -285>>,
       <<373, 373, 1, -254>>, <<374, 374, 1, -285>>, <<375, 375, 1, -254>>,
       <<376, 377, 1, -287>>, <<378, 378, 1, -256>>, <<379, 379, 1, -289>>,
       <<380, 380, 1, -258>>, <<381, 381, 1, -291>>, <<382, 382, 1, -260>>,
       <<383, 383, 1, -268>>, <<416, 416, 1, -337>>, <<417, 417, 1, -306>>,
       <<431, 431, 1, -346>>, <<432, 432, 1, -315>>, <<461, 461, 1, -396>>,
       <<462, 462, 1, -365>>, <<463, 463, 1, -390>>, <<464, 464, 1, -359>>,
       <<465, 465, 1, -386>>, <<466, 466, 1, -355>>, <<467, 467, 1, -382>>,
       <<468, 468, 1, -351>>, <<469, 469, 1, -384>>, <<470, 470, 1, -353>>,
       <<471, 471, 1, -386>>, <<472, 472, 1, -355>>, <<473, 473, 1, -388>>,
       <<474, 474, 1, -357>>, <<475, 475, 1, -390>>, <<476, 476, 1, -359>>,
       <<478, 478, 1, -413>>, <<479, 479, 1, -382>>, <<480, 480, 1, -415>>,
       <<481, 481, 1, -384>>, <<486, 486, 1, -415>>, <<487, 487, 1, -384>>,
       <<488, 488, 1, -413>>, <<489, 489, 1, -382>>, <<490, 490, 1, -411>>,
       <<491, 491, 1, -380>>, <<492, 492, 1, -413>>, <<493, 493, 1, -382>>,
       <<496, 496, 1, -390>>, <<500, 500, 1, -429>>, <<501, 501, 1, -398>>,
       <<504, 504, 1, -426>>, <<505, 505, 1, -395>>, <<506, 506, 1, -441>>,
       <<507, 507, 1, -410>>, <<512, 512, 1, -447>>, <<513, 513, 1, -416>>,
       <<514, 514, 1, -449>>, <<515, 515, 1, -418>>, <<516, 516, 1, -447>>,
       <<517, 517, 1, -416>>, <<518, 518, 1, -449>>, <<519, 519, 1, -418>>,
       <<520, 520, 1, -447>>, <<521, 521, 1, -416>>, <<522, 522, 1, -449>>,
       <<523, 523, 1, -418>>, <<524, 524, 1, -445>>, <<525, 525, 1, -414>>,
       <<526, 526, 1, -447>>, <<527, 527, 1, -416>>, <<528, 528, 1, -446>>,
       <<529, 529, 1, -415>>, <<530, 530, 1, -448>>, <<531, 531, 1, -417>>,
       <<532, 532, 1, -447>>, <<533, 533, 1, -416>>, <<534, 534, 1, -449>>,
       <<535, 535, 1, -418>>, <<536, 536, 1, -453>>, <<537, 537, 1, -422>>,
       <<538, 538, 1, -454>>, <<539, 539, 1, -423>>, <<542, 542, 1, -470>>,
       <<543, 543, 1, -439>>, <<550, 550, 1, -485>>, <<551, 551, 1, -454>>,
       <<552, 552, 1, -483>>, <<553, 553, 1, -452>>, <<554, 554, 1, -475>>,
       <<555, 555, 1, -444>>, <<556, 556, 1, -477>>, <<557, 557, 1, -446>>,
       <<558, 558, 1, -479>>, <<559, 559, 1, -448>>, <<560, 560, 1, -481>>,
       <<561, 561, 1, -450>>, <<562, 562, 1, -473>>, <<563, 563, 1, -442>>,
       <<688, 690, 2, -584>>, <<691, 691, 1, -577>>, <<695, 695, 1, -576>>,
       <<696, 696, 1, -575>>, <<728, 728, 1, -696>>, <<729, 729, 1, -697>>,
       <<730, 730, 1, -698>>, <<731, 731, 1, -699>>, <<732, 732, 1, -700>>,
       <<733, 733, 1, -701>>, <<737, 737, 1, -629>>, <<738, 738, 1, -623>>,
       <<739, 739, 1, -619>>, <<890, 890, 1, -858>>, <<894, 894, 1, -835>>,
       <<900, 900, 1, -868>>, <<901, 901, 1, -869>>, <<7468, 7468, 1, -7403>>,
       <<7470, 7472, 2, -7404>>, <<7473, 7475, 2, -7404>>, <<7476, 7482, 1,
       -7404>>, <<7484, 7484, 1, -7405>>, <<7486, 7486, 1, -7406>>, <<7487,
       7487, 1, -7405>>, <<7488, 7489, 1, -7404>>, <<7490, 7490, 1, -7403>>,
       <<7491, 7491, 1, -7394>>, <<7495, 7495, 1, -7397>>, <<7496, 7497, 1,
       -7396>>, <<7501, 7501, 1, -7398>>, <<7503, 7503, 1, -7396>>, <<7504,
       7506, 2, -7395>>, <<7510, 7510, 1, -7398>>, <<7511, 7512, 1, -7395>>,
       <<7515, 7515, 1, -7397>>, <<7522, 7522, 1, -7417>>, <<7523, 7523, 1,
       -7409>>, <<7524, 7525, 1, -7407>>, <<7580, 7580, 1, -7481>>, <<7584,
       7584, 1, -7482>>, <<7611, 7611, 1, -7489>>, <<7680, 7680, 1, -7615>>,
       <<7681, 7681, 1, -7584>>, <<7682, 7682, 1, -7616>>, <<7683, 7683, 1,
       -7585>>, <<7684, 7684, 1, -7618>>, <<7685, 7685, 1, -7587>>, <<7686,
       7686, 1, -7620>>, <<7687, 7687, 1, -7589>>, <<7688, 7688, 1, -7621>>,
       <<7689, 7689, 1, -7590>>, <<7690, 7690, 1, -7622>>, <<7691, 7691, 1,
       -7591>>, <<7692, 7692, 1, -7624>>, <<7693, 7693, 1, -7593>>, <<7694,
       7694, 1, -7626>>, <<7695, 7695, 1, -7595>>, <<7696, 7696, 1, -7628>>,
       <<7697, 7697, 1, -7597>>, <<7698, 7698, 1, -7630>>, <<7699, 7699, 1,
       -7599>>, <<7700, 7700, 1, -7631>>, <<7701, 7701, 1, -7600>>, <<7702,
       7702, 1, -7633>>, <<7703, 7703, 1, -7602>>, <<7704, 7704, 1, -7635>>,
       <<7705, 7705, 1, -7604>>, <<7706, 7706, 1, -7637>>, <<7707, 7707, 1,
       -7606>>, <<7708, 7708, 1, -7639>>, <<7709, 7709, 1, -7608>>, <<7710,
       7710, 1, -7640>>, <<7711, 7711, 1, -7609>>, <<7712, 7712, 1, -7641>>,
       <<7713, 7713, 1, -7610>>, <<7714, 7714, 1, -7642>>, <<7715, 7715, 1,
       -7611>>, <<7716, 7716, 1, -7644>>, <<7717, 7717, 1, -7613>>, <<7718,
       7718, 1, -7646>>, <<7719, 7719, 1, -7615>>, <<7720, 7720, 1, -7648>>,
       <<7721, 7721, 1, -7617>>, <<7722, 7722, 1, -7650>>, <<7723, 7723, 1,
       -7619>>, <<7724, 7724, 1, -7651>>, <<7725, 7725, 1, -7620>>, <<7726,
       7726, 1, -7653>>, <<7727, 7727, 1, -7622>>, <<7728, 7728, 1, -7653>>,
       <<7729, 7729, 1, -7622>>, <<7730, 7730, 1, -7655>>, <<7731, 7731, 1,
       -7624>>, <<7732, 7732, 1, -7657>>, <<7733, 7733, 1, -7626>>, <<7734,
       7734, 1, -7658>>, <<7735, 7735, 1, -7627>>, <<7736, 7736, 1, -7660>>,
       <<7737, 7737, 1, -7629>>, <<7738, 7738, 1, -7662>>, <<7739, 7739, 1,
       -7631>>, <<7740, 7740, 1, -7664>>, <<7741, 7741, 1, -7633>>, <<7742,
       7742, 1, -7665>>, <<7743, 7743, 1, -7634>>, <<7744, 7744, 1, -7667>>,
       <<7745, 7745, 1, -7636>>, <<7746, 7746, 1, -7669>>, <<7747, 7747, 1,
       -7638>>, <<7748, 7748, 1, -7670>>, <<7749, 7749, 1, -7639>>, <<7750,
       7750, 1, -7672>>, <<7751, 7751, 1, -7641>>, <<7752, 7752, 1, -7674>>,
       <<7753, 7753, 1, -7643>>, <<7754, 7754, 1, -7676>>, <<7755, 7755, 1,
       -7645>>, <<7756, 7756, 1, -7677>>, <<7757, 7757, 1, -7646>>, <<7758,
       7758, 1, -7679>>, <<7759, 7759, 1, -7648>>, <<7760, 7760, 1, -7681>>,
       <<7761, 7761, 1, -7650>>, <<7762, 7762, 1, -7683>>, <<7763, 7763, 1,
       -7652>>, <<7764, 7764, 1, -7684>>, <<7765, 7765, 1, -7653>>, <<7766,
       7766, 1, -7686>>, <<7767, 7767, 1, -7655>>, <<7768, 7768, 1, -7686>>,
       <<7769, 7769, 1, -7655>>, <<7770, 7770, 1, -7688>>, <<7771, 7771, 1,
       -7657>>, <<7772, 7772, 1, -7690>>, <<7773, 7773, 1, -7659>>, <<7774,
       7774, 1, -7692>>, <<7775, 7775, 1, -7661>>, <<7776, 7776, 1, -7693>>,
       <<7777, 7777, 1, -7662>>, <<7778, 7778, 1, -7695>>, <<7779, 7779, 1,
       -7664>>, <<7780, 7780, 1, -7697>>, <<7781, 7781, 1, -7666>>, <<7782,
       7782, 1, -7699>>, <<7783, 7783, 1, -7668>>, <<7784, 7784, 1, -7701>>,
       <<7785, 7785, 1, -7670>>, <<7786, 7786, 1, -7702>>, <<7787, 7787, 1,
       -7671>>, <<7788, 7788, 1, -7704>>, <<7789, 7789, 1, -7673>>, <<7790,
       7790, 1, -7706>>, <<7791, 7791, 1, -7675>>, <<7792, 7792, 1, -7708>>,
       <<7793, 7793, 1, -7677>>, <<7794, 7794, 1, -7709>>, <<7795, 7795, 1,
       -7678>>, <<7796, 7796, 1, -7711>>, <<7797, 7797, 1, -7680>>, <<7798,
       7798, 1, -7713>>, <<7799, 7799, 1, -7682>>, <<7800, 7800, 1, -7715>>,
       <<7801, 7801, 1, -7684>>, <<7802, 7802, 1, -7717>>, <<7803, 7803, 1,
       -7686>>, <<7804, 7804, 1, -7718>>, <<7805, 7805, 1, -7687>>, <<7806,
       7806, 1, -7720>>, <<7807, 7807, 1, -7689>>, <<7808, 7808, 1, -7721>>,
       <<7809, 7809, 1, -7690>>, <<7810, 7810, 1, -7723>>, <<7811, 7811, 1,
       -7692>>, <<7812, 7812, 1, -7725>>, <<7813, 7813, 1, -7694>>, <<7814,
       7814, 1, -7727>>, <<7815, 7815, 1, -7696>>, <<7816, 7816, 1, -7729>>,
       <<7817, 7817, 1, -7698>>, <<7818, 7818, 1, -7730>>, <<7819, 7819, 1,
       -7699>>, <<7820, 7820, 1, -7732>>, <<7821, 7821, 1, -7701>>, <<7822,
       7822, 1, -7733>>, <<7823, 7823, 1, -7702>>, <<7824, 7824, 1, -7734>>,
       <<7825, 7825, 1, -7703>>, <<7826, 7826, 1, -7736>>, <<7827, 7827, 1,
       -7705>>, <<7828, 7828, 1, -7738>>, <<7829, 7829, 1, -7707>>, <<7830,
       7830, 1, -7726>>, <<7831, 7831, 1, -7715>>, <<7832, 7832, 1, -7713>>,
       <<7833, 7833, 1, -7712>>, <<7834, 7834, 1, -7737>>, <<7835, 7835, 1,
       -7720>>, <<7840, 7840, 1, -7775>>, <<7841, 7841, 1, -7744>>, <<7842,
       7842, 1, -7777>>, <<7843, 7843, 1, -7746>>, <<7844, 7844, 1, -7779>>,
       <<7845, 7845, 1, -7748>>, <<7846, 7846, 1, -7781>>, <<7847, 7847, 1,
       -7750>>, <<7848, 7848, 1, -7783>>, <<7849, 7849, 1, -7752>>, <<7850,
       7850, 1, -7785>>, <<7851, 7851, 1, -7754>>, <<7852, 7852, 1, -7787>>,
       <<7853, 7853, 1, -7756>>, <<7854, 7854, 1, -7789>>, <<7855, 7855, 1,
       -7758>>, <<7856, 7856, 1, -7791>>, <<7857, 7857, 1, -7760>>, <<7858,
       7858, 1, -7793>>, <<7859, 7859, 1, -7762>>, <<7860, 7860, 1, -7795>>,
       <<7861, 7861, 1, -7764>>, <<7862, 7862, 1, -7797>>, <<7863, 7863, 1,
       -7766>>, <<7864, 7864, 1, -7795>>, <<7865, 7865, 1, -7764>>, <<7866,
       7866, 1, -7797>>, <<7867, 7867, 1, -7766>>, <<7868, 7868, 1, -7799>>,
       <<7869, 7869, 1, -7768>>, <<7870, 7870, 1, -7801>>, <<7871, 7871, 1,
       -7770>>, <<7872, 7872, 1, -7803>>, <<7873, 7873, 1, -7772>>, <<7874,
       7874, 1, -7805>>, <<7875, 7875, 1, -7774>>, <<7876, 7876, 1, -7807>>,
       <<7877, 7877, 1, -7776>>, <<7878, 7878, 1, -7809>>, <<7879, 7879, 1,
       -7778>>, <<7880, 7880, 1, -7807>>, <<7881, 7881, 1, -7776>>, <<7882,
       7882, 1, -7809>>, <<7883, 7883, 1, -7778>>, <<7884, 7884, 1, -7805>>,
       <<7885, 7885, 1, -7774>>, <<7886, 7886, 1, -7807>>, <<7887, 7887, 1,
       -7776>>, <<7888, 7888, 1, -7809>>, <<7889, 7889, 1, -7778>>, <<7890,
       7890, 1, -7811>>, <<7891, 7891, 1, -7780>>, <<7892, 7892, 1, -7813>>,
       <<7893, 7893, 1, -7782>>, <<7894, 7894, 1, -7815>>, <<7895, 7895, 1,
       -7784>>, <<7896, 7896, 1, -7817>>, <<7897, 7897, 1, -7786>>, <<7898,
       7898, 1, -7819>>, <<7899, 7899, 1, -7788>>, <<7900, 7900, 1, -7821>>,
       <<7901, 7901, 1, -7790>>, <<7902, 7902, 1, -7823>>, <<7903, 7903, 1,
       -7792>>, <<7904, 7904, 1, -7825>>, <<7905, 7905, 1, -7794>>, <<7906,
       7906, 1, -7827>>, <<7907, 7907, 1, -7796>>, <<7908, 7908, 1, -7823>>,
       <<7909, 7909, 1, -7792>>, <<7910, 7910, 1, -7825>>, <<7911, 7911, 1,
       -7794>>, <<7912, 7912, 1, -7827>>, <<7913, 7913, 1, -7796>>, <<7914,
       7914, 1, -7829>>, <<7915, 7915, 1, -7798>>, <<7916, 7916, 1, -7831>>,
       <<7917, 7917, 1, -7800>>, <<7918, 7918, 1, -7833>>, <<7919, 7919, 1,
       -7802>>, <<7920, 7920, 1, -7835>>, <<7921, 7921, 1, -7804>>, <<7922,
       7922, 1, -7833>>, <<7923, 7923, 1, -7802>>, <<7924, 7924, 1, -7835>>,
       <<7925, 7925, 1, -7804>>, <<7926, 7926, 1, -7837>>, <<7927, 7927, 1,
       -7806>>, <<7928, 7928, 1, -7839>>, <<7929, 7929, 1, -7808>>, <<8125,
       8125, 1, -8093>>, <<8127, 8127, 1, -8095>>, <<8128, 8128, 1, -8096>>,
       <<8129, 8129, 1, -8097>>, <<8141, 8141, 1, -8109>>, <<8142, 8142, 1,
       -8110>>, <<8143, 8143, 1, -8111>>, <<8157, 8157, 1, -8125>>, <<8158,
       8158, 1, -8126>>, <<8159, 8159, 1, -8127>>, <<8173, 8173, 1, -8141>>,
       <<8174, 8174, 1, -8142>>, <<8175, 8175, 1, -8079>>, <<8189, 8189, 1,
       -8157>>, <<8190, 8190, 1, -8158>>, <<8192, 8192, 1, -8160>>, <<8193,
       8193, 1, -8161>>, <<8194, 8194, 1, -8162>>, <<8195, 8195, 1, -8163>>,
       <<8196, 8196, 1, -8164>>, <<8197, 8197, 1, -8165>>, <<8198, 8198, 1,
       -8166>>, <<8199, 8199, 1, -8167>>, <<8200, 8200, 1, -8168>>, <<8201,
       8201, 1, -8169>>, <<8202, 8202, 1, -8170>>, <<8215, 8215, 1, -8183>>,
       <<8228, 8228, 1, -8182>>, <<8239, 8239, 1, -8207>>, <<8254, 8254, 1,
       -8222>>, <<8287, 8287, 1, -8255>>, <<8304, 8304, 1, -8256>>, <<8305,
       8305, 1, -8200>>, <<8308, 8313, 1, -8256>>, <<8314, 8314, 1, -8271>>,
       <<8316, 8316, 1, -8255>>, <<8317, 8318, 1, -8277>>, <<8319, 8319, 1,
       -8209>>, <<8320, 8329, 1, -8272>>, <<8330, 8330, 1, -8287>>, <<8332,
       8332, 1, -8271>>, <<8333, 8334, 1, -8293>>, <<8336, 8336, 1, -8239>>,
       <<8337, 8337, 1, -8236>>, <<8338, 8338, 1, -8227>>, <<8339, 8339, 1,
       -8219>>, <<8341, 8341, 1, -8237>>, <<8342, 8345, 1, -8235>>, <<8346,
       8346, 1, -8234>>, <<8347, 8348, 1, -8232>>, <<8450, 8450, 1, -8383>>,
       <<8451, 8451, 1, -8384>>, <<8457, 8457, 1, -8387>>, <<8458, 8458, 1,
       -8355>>, <<8459, 8459, 1, -8387>>, <<8460, 8460, 1, -8388>>, <<8461,
       8461, 1, -8389>>, <<8462, 8462, 1, -8358>>, <<8464, 8464, 1, -8391>>,
       <<8465, 8465, 1, -8392>>, <<8466, 8466, 1, -8390>>, <<8467, 8467, 1,
       -8359>>, <<8469, 8469, 1, -8391>>, <<8473, 8475, 1, -8393>>, <<8476,
       8476, 1, -8394>>, <<8477, 8477, 1, -8395>>, <<8484, 8484, 1, -8394>>,
       <<8488, 8488, 1, -8398>>, <<8490, 8490, 1, -8415>>, <<8491, 8493, 1,
       -8426>>, <<8495, 8495, 1, -8394>>, <<8496, 8497, 1, -8427>>, <<8499,
       8499, 1, -8422>>, <<8500, 8500, 1, -8389>>, <<8505, 8505, 1, -8400>>,
       <<8517, 8517, 1, -8449>>, <<8518, 8519, 1, -8418>>, <<8520, 8521, 1,
       -8415>>, <<8543, 8543, 1, -8494>>, <<8544, 8544, 1, -8471>>, <<8548,
       8548, 1, -8462>>, <<8553, 8553, 1, -8465>>, <<8556, 8556, 1, -8480>>,
       <<8557, 8558, 1, -8490>>, <<8559, 8559, 1, -8482>>, <<8560, 8560, 1,
       -8455>>, <<8564, 8564, 1, -8446>>, <<8569, 8569, 1, -8449>>, <<8572,
       8572, 1, -8464>>, <<8573, 8574, 1, -8474>>, <<8575, 8575, 1, -8466>>,
       <<8800, 8800, 1, -8739>>, <<8814, 8814, 1, -8754>>, <<8815, 8815, 1,
       -8753>>, <<9312, 9320, 1, -9263>>, <<9398, 9423, 1, -9333>>, <<9424,
       9449, 1, -9327>>, <<9450, 9450, 1, -9402>>, <<11388, 11388, 1, -11282>>,
       <<11389, 11389, 1, -11303>>, <<12288, 12288, 1, -12256>>, <<12443,
       12443, 1, -12411>>, <<12444, 12444, 1, -12412>>, <<12992, 13000, 1,
       -12943>>, <<13144, 13153, 1, -13096>>, <<13186, 13186, 1, -13121>>,
       <<13196, 13196, 1, -13126>>, <<13197, 13197, 1, -13094>>, <<13205,
       13205, 1, -13097>>, <<13211, 13211, 1, -13102>>, <<13234, 13234, 1,
       -13119>>, <<13238, 13238, 1, -13152>>, <<13244, 13244, 1, -13157>>,
       <<13248, 13248, 1, -13141>>, <<13249, 13249, 1, -13172>>, <<13280,
       13288, 1, -13231>>, <<42994, 42994, 1, -42927>>, <<42995, 42995, 1,
       -42925>>, <<42996, 42996, 1, -42915>>, <<64297, 64297, 1, -64254>>,
       <<64606, 64606, 1, -64574>>, <<64607, 64607, 1, -64575>>, <<64608,
       64608, 1, -64576>>, <<64609, 64609, 1, -64577>>, <<64610, 64610, 1,
       -64578>>, <<64611, 64611, 1, -64579>>, <<65019, 65019, 1, -64987>>,
       <<65040, 65040, 1, -64996>>, <<65043, 65044, 1, -64985>>, <<65045,
       65045, 1, -65012>>, <<65046, 65046, 1, -64983>>, <<65075, 65075, 1,
       -64980>>, <<65076, 65076, 1, -64981>>, <<65077, 65078, 1, -65037>>,
       <<65079, 65079, 1, -64956>>, <<65080, 65080, 1, -64955>>, <<65095,
       65095, 1, -65004>>, <<65096, 65096, 1, -65003>>, <<65097, 65097, 1,
       -65065>>, <<65098, 65098, 1, -65066>>, <<65099, 65099, 1, -65067>>,
       <<65100, 65100, 1, -65068>>, <<65101, 65101, 1, -65006>>, <<65102,
       65102, 1, -65007>>, <<65103, 65103, 1, -65008>>, <<65104, 65106, 2,
       -65060>>, <<65108, 65108, 1, -65049>>, <<65109, 65109, 1, -65051>>,
       <<65110, 65110, 1, -65047>>, <<65111, 65111, 1, -65078>>, <<65113,
       65114, 1, -65073>>, <<65115, 65115, 1, -64992>>, <<65116, 65116, 1,
       -64991>>, <<65119, 65119, 1, -65084>>, <<65120, 65120, 1, -65082>>,
       <<65121, 65122, 1, -65079>>, <<65123, 65123, 1, -65078>>, <<65124,
       65124, 1, -65064>>, <<65125, 65125, 1, -65063>>, <<65126, 65126, 1,
       -65065>>, <<65128, 65128, 1, -65036>>, <<65129, 65130, 1, -65093>>,
       <<65131, 65131, 1, -65067>>, <<65136, 65136, 1, -65104>>, <<65138,
       65138, 1, -65106>>, <<65140, 65140, 1, -65108>>, <<65142, 65142, 1,
       -65110>>, <<65144, 65144, 1, -65112>>, <<65146, 65146, 1, -65114>>,
       <<65148, 65148, 1, -65116>>, <<65150, 65150, 1, -65118>>, <<65281,
       65374, 1, -65248>>, <<65507, 65507, 1, -65475>>, <<67493, 67493, 1,
       -67380>>, <<119808, 119833, 1, -119743>>, <<119834, 119859, 1,
       -119737>>, <<119860, 119885, 1, -119795>>, <<119886, 119892, 1,
       -119789>>, <<119894, 119911, 1, -119789>>, <<119912, 119937, 1,
       -119847>>, <<119938, 119963, 1, -119841>>, <<119964, 119966, 2,
       -119899>>, <<119967, 119967, 1, -119899>>, <<119970, 119970, 1,
       -119899>>, <<119973, 119974, 1, -119899>>, <<119977, 119980, 1,
       -119899>>, <<119982, 119989, 1, -119899>>, <<119990, 119993, 1,
       -119893>>, <<119995, 119997, 2, -119893>>, <<119998, 120003, 1,
       -119893>>, <<120005, 120015, 1, -119893>>, <<120016, 120041, 1,
       -119951>>, <<120042, 120067, 1, -119945>>, <<120068, 120069, 1,
       -120003>>, <<120071, 120074, 1, -120003>>, <<120077, 120084, 1,
       -120003>>, <<120086, 120092, 1, -120003>>, <<120094, 120119, 1,
       -119997>>, <<120120, 120121, 1, -120055>>, <<120123, 120126, 1,
       -120055>>, <<120128, 120132, 1, -120055>>, <<120134, 120134, 1,
       -120055>>, <<120138, 120144, 1, -120055>>, <<120146, 120171, 1,
       -120049>>, <<120172, 120197, 1, -120107>>, <<120198, 120223, 1,
       -120101>>, <<120224, 120249, 1, -120159>>, <<120250, 120275, 1,
       -120153>>, <<120276, 120301, 1, -120211>>, <<120302, 120327, 1,
       -120205>>, <<120328, 120353, 1, -120263>>, <<120354, 120379, 1,
       -120257>>, <<120380, 120405, 1, -120315>>, <<120406, 120431, 1,
       -120309>>, <<120432, 120457, 1, -120367>>, <<120458, 120483, 1,
       -120361>>, <<120782, 120791, 1, -120734>>, <<120792, 120801, 1,
       -120744>>, <<120802, 120811, 1, -120754>>, <<120812, 120821, 1,
       -120764>>, <<120822, 120831, 1, -120774>>, <<127274, 127274, 1,
       -127191>>, <<127275, 127275, 1, -127208>>, <<127276, 127276, 1,
       -127194>>, <<127280, 127305, 1, -127215>>, <<130032, 130041, 1,
       -129984>> >>
FoldSpecial ==
    << <<188, <<49, 52>>>>, <<189, <<49, 50>>>>, <<190, <<51, 52>>>>, <<306,
       <<73, 74>>>>, <<307, <<105, 106>>>>, <<452, <<68, 90>>>>, <<453, <<68,
       122>>>>, <<454, <<100, 122>>>>, <<455, <<76, 74>>>>, <<456, <<76,
       106>>>>, <<457, <<108, 106>>>>, <<458, <<78, 74>>>>, <<459, <<78,
       106>>>>, <<460, <<110, 106>>>>, <<497, <<68, 90>>>>, <<498, <<68,
       122>>>>, <<499, <<100, 122>>>>, <<8229, <<46, 46>>>>, <<8230, <<46, 46,
       46>>>>, <<8252, <<33, 33>>>>, <<8263, <<63, 63>>>>, <<8264, <<63,
       33>>>>, <<8265, <<33, 63>>>>, <<8360, <<82, 115>>>>, <<8448, <<97, 47,
       99>>>>, <<8449, <<97, 47, 115>>>>, <<8453, <<99, 47, 111>>>>, <<8454,
       <<99, 47, 117>>>>, <<8470, <<78, 111>>>>, <<8480, <<83, 77>>>>, <<8481,
       <<84, 69, 76>>>>, <<8482, <<84, 77>>>>, <<8507, <<70, 65, 88>>>>,
       <<8528, <<49, 55>>>>, <<8529, <<49, 57>>>>, <<8530, <<49, 49, 48>>>>,
       <<8531, <<49, 51>>>>, <<8532, <<50, 51>>>>, <<8533, <<49, 53>>>>,
       <<8534, <<50, 53>>>>, <<8535, <<51, 53>>>>, <<8536, <<52, 53>>>>,
       <<8537, <<49, 54>>>>, <<8538, <<53, 54>>>>, <<8539, <<49, 56>>>>,
       <<8540, <<51, 56>>>>, <<8541, <<53, 56>>>>, <<8542, <<55, 56>>>>,
       <<8545, <<73, 73>>>>, <<8546, <<73, 73, 73>>>>, <<8547, <<73, 86>>>>,
       <<8549, <<86, 73>>>>, <<8550, <<86, 73, 73>>>>, <<8551, <<86, 73, 73,
       73>>>>, <<8552, <<73, 88>>>>, <<8554, <<88, 73>>>>, <<8555, <<88, 73,
       73>>>>, <<8561, <<105, 105>>>>, <<8562, <<105, 105, 105>>>>, <<8563,
       <<105, 118>>>>, <<8565, <<118, 105>>>>, <<8566, <<118, 105, 105>>>>,
       <<8567, <<118, 105, 105, 105>>>>, <<8568, <<105, 120>>>>, <<8570, <<120,
       105>>>>, <<8571, <<120, 105, 105>>>>, <<8585, <<48, 51>>>>, <<9321,
       <<49, 48>>>>, <<9322, <<49, 49>>>>, <<9323, <<49, 50>>>>, <<9324, <<49,
       51>>>>, <<9325, <<49, 52>>>>, <<9326, <<49, 53>>>>, <<9327, <<49,
       54>>>>, <<9328, <<49, 55>>>>, <<9329, <<49, 56>>>>, <<9330, <<49,
       57>>>>, <<9331, <<50, 48>>>>, <<9332, <<40, 49, 41>>>>, <<9333, <<40,
       50, 41>>>>, <<9334, <<40, 51, 41>>>>, <<9335, <<40, 52, 41>>>>, <<9336,
       <<40, 53, 41>>>>, <<9337, <<40, 54, 41>>>>, <<9338, <<40, 55, 41>>>>,
       <<9339, <<40, 56, 41>>>>, <<9340, <<40, 57, 41>>>>, <<9341, <<40, 49,
       48, 41>>>>, <<9342, <<40, 49, 49, 41>>>>, <<9343, <<40, 49, 50, 41>>>>,
       <<9344, <<40, 49, 51, 41>>>>, <<9345, <<40, 49, 52, 41>>>>, <<9346,
       <<40, 49, 53, 41>>>>, <<9347, <<40, 49, 54, 41>>>>, <<9348, <<40, 49,
       55, 41>>>>, <<9349, <<40, 49, 56, 41>>>>, <<9350, <<40, 49, 57, 41>>>>,
       <<9351, <<40, 50, 48, 41>>>>, <<9352, <<49, 46>>>>, <<9353, <<50,
       46>>>>, <<9354, <<51, 46>>>>, <<9355, <<52, 46>>>>, <<9356, <<53,
       46>>>>, <<9357, <<54, 46>>>>, <<9358, <<55, 46>>>>, <<9359, <<56,
       46>>>>, <<9360, <<57, 46>>>>, <<9361, <<49, 48, 46>>>>, <<9362, <<49,
       49, 46>>>>, <<9363, <<49, 50, 46>>>>, <<9364, <<49, 51, 46>>>>, <<9365,
       <<49, 52, 46>>>>, <<9366, <<49, 53, 46>>>>, <<9367, <<49, 54, 46>>>>,
       <<9368, <<49, 55, 46>>>>, <<9369, <<49, 56, 46>>>>, <<9370, <<49, 57,
       46>>>>, <<9371, <<50, 48, 46>>>>, <<9372, <<40, 97, 41>>>>, <<9373,
       <<40, 98, 41>>>>, <<9374, <<40, 99, 41>>>>, <<9375, <<40, 100, 41>>>>,
       <<9376, <<40, 101, 41>>>>, <<9377, <<40, 102, 41>>>>, <<9378, <<40, 103,
       41>>>>, <<9379, <<40, 104, 41>>>>, <<9380, <<40, 105, 41>>>>, <<9381,
       <<40, 106, 41>>>>, <<9382, <<40, 107, 41>>>>, <<9383, <<40, 108, 41>>>>,
       <<9384, <<40, 109, 41>>>>, <<9385, <<40, 110, 41>>>>, <<9386, <<40, 111,
       41>>>>, <<9387, <<40, 112, 41>>>>, <<9388, <<40, 113, 41>>>>, <<9389,
       <<40, 114, 41>>>>, <<9390, <<40, 115, 41>>>>, <<9391, <<40, 116, 41>>>>,
       <<9392, <<40, 117, 41>>>>, <<9393, <<40, 118, 41>>>>, <<9394, <<40, 119,
       41>>>>, <<9395, <<40, 120, 41>>>>, <<9396, <<40, 121, 41>>>>, <<9397,
       <<40, 122, 41>>>>, <<10868, <<58, 58, 61>>>>, <<10869, <<61, 61>>>>,
       <<10870, <<61, 61, 61>>>>, <<12800, <<40, 41>>>>, <<12801, <<40, 41>>>>,
       <<12802, <<40, 41>>>>, <<12803, <<40, 41>>>>, <<12804, <<40, 41>>>>,
       <<12805, <<40, 41>>>>, <<12806, <<40, 41>>>>, <<12807, <<40, 41>>>>,
       <<12808, <<40, 41>>>>, <<12809, <<40, 41>>>>, <<12810, <<40, 41>>>>,
       <<12811, <<40, 41>>>>, <<12812, <<40, 41>>>>, <<12813, <<40, 41>>>>,
       <<12814, <<40, 41>>>>, <<12815, <<40, 41>>>>, <<12816, <<40, 41>>>>,
       <<12817, <<40, 41>>>>, <<12818, <<40, 41>>>>, <<12819, <<40, 41>>>>,
       <<12820, <<40, 41>>>>, <<12821, <<40, 41>>>>, <<12822, <<40, 41>>>>,
       <<12823, <<40, 41>>>>, <<12824, <<40, 41>>>>, <<12825, <<40, 41>>>>,
       <<12826, <<40, 41>>>>, <<12827, <<40, 41>>>>, <<12828, <<40, 41>>>>,
       <<12829, <<40, 41>>>>, <<12830, <<40, 41>>>>, <<12832, <<40, 41>>>>,
       <<12833, <<40, 41>>>>, <<12834, <<40, 41>>>>, <<12835, <<40, 41>>>>,
       <<12836, <<40, 41>>>>, <<12837, <<40, 41>>>>, <<12838, <<40, 41>>>>,
       <<12839, <<40, 41>>>>, <<12840, <<40, 41>>>>, <<12841, <<40, 41>>>>,
       <<12842, <<40, 41>>>>, <<12843, <<40, 41>>>>, <<12844, <<40, 41>>>>,
       <<12845, <<40, 41>>>>, <<12846, <<40, 41>>>>, <<12847, <<40, 41>>>>,
       <<12848, <<40, 41>>>>, <<12849, <<40, 41>>>>, <<12850, <<40, 41>>>>,
       <<12851, <<40, 41>>>>, <<12852, <<40, 41>>>>, <<12853, <<40, 41>>>>,
       <<12854, <<40, 41>>>>, <<12855, <<40, 41>>>>, <<12856, <<40, 41>>>>,
       <<12857, <<40, 41>>>>, <<12858, <<40, 41>>>>, <<12859, <<40, 41>>>>,
       <<12860, <<40, 41>>>>, <<12861, <<40, 41>>>>, <<12862, <<40, 41>>>>,
       <<12863, <<40, 41>>>>, <<12864, <<40, 41>>>>, <<12865, <<40, 41>>>>,
       <<12866, <<40, 41>>>>, <<12867, <<40, 41>>>>, <<12880, <<80, 84, 69>>>>,
       <<12881, <<50, 49>>>>, <<12882, <<50, 50>>>>, <<12883, <<50, 51>>>>,
       <<12884, <<50, 52>>>>, <<12885, <<50, 53>>>>, <<12886, <<50, 54>>>>,
       <<12887, <<50, 55>>>>, <<12888, <<50, 56>>>>, <<12889, <<50, 57>>>>,
       <<12890, <<51, 48>>>>, <<12891, <<51, 49>>>>, <<12892, <<51, 50>>>>,
       <<12893, <<51, 51>>>>, <<12894, <<51, 52>>>>, <<12895, <<51, 53>>>>,
       <<12977, <<51, 54>>>>, <<12978, <<51, 55>>>>, <<12979, <<51, 56>>>>,
       <<12980, <<51, 57>>>>, <<12981, <<52, 48>>>>, <<12982, <<52, 49>>>>,
       <<12983, <<52, 50>>>>, <<12984, <<52, 51>>>>, <<12985, <<52, 52>>>>,
       <<12986, <<52, 53>>>>, <<12987, <<52, 54>>>>, <<12988, <<52, 55>>>>,
       <<12989, <<52, 56>>>>, <<12990, <<52, 57>>>>, <<12991, <<53, 48>>>>,
       <<13001, <<49, 48>>>>, <<13002, <<49, 49>>>>, <<13003, <<49, 50>>>>,
       <<13004, <<72, 103>>>>, <<13005, <<101, 114, 103>>>>, <<13006, <<101,
       86>>>>, <<13007, <<76, 84, 68>>>>, <<13154, <<49, 48>>>>, <<13155, <<49,
       49>>>>, <<13156, <<49, 50>>>>, <<13157, <<49, 51>>>>, <<13158, <<49,
       52>>>>, <<13159, <<49, 53>>>>, <<13160, <<49, 54>>>>, <<13161, <<49,
       55>>>>, <<13162, <<49, 56>>>>, <<13163, <<49, 57>>>>, <<13164, <<50,
       48>>>>, <<13165, <<50, 49>>>>, <<13166, <<50, 50>>>>, <<13167, <<50,
       51>>>>, <<13168, <<50, 52>>>>, <<13169, <<104, 80, 97>>>>, <<13170,
       <<100, 97>>>>, <<13171, <<65, 85>>>>, <<13172, <<98, 97, 114>>>>,
       <<13173, <<111, 86>>>>, <<13174, <<112, 99>>>>, <<13175, <<100, 109>>>>,
       <<13176, <<100, 109, 50>>>>, <<13177, <<100, 109, 51>>>>, <<13178, <<73,
       85>>>>, <<13184, <<112, 65>>>>, <<13185, <<110, 65>>>>, <<13187, <<109,
       65>>>>, <<13188, <<107, 65>>>>, <<13189, <<75, 66>>>>, <<13190, <<77,
       66>>>>, <<13191, <<71, 66>>>>, <<13192, <<99, 97, 108>>>>, <<13193,
       <<107, 99, 97, 108>>>>, <<13194, <<112, 70>>>>, <<13195, <<110, 70>>>>,
       <<13198, <<109, 103>>>>, <<13199, <<107, 103>>>>, <<13200, <<72,
       122>>>>, <<13201, <<107, 72, 122>>>>, <<13202, <<77, 72, 122>>>>,
       <<13203, <<71, 72, 122>>>>, <<13204, <<84, 72, 122>>>>, <<13206, <<109,
       108>>>>, <<13207, <<100, 108>>>>, <<13208, <<107, 108>>>>, <<13209,
       <<102, 109>>>>, <<13210, <<110, 109>>>>, <<13212, <<109, 109>>>>,
       <<13213, <<99, 109>>>>, <<13214, <<107, 109>>>>, <<13215, <<109, 109,
       50>>>>, <<13216, <<99, 109, 50>>>>, <<13217, <<109, 50>>>>, <<13218,
       <<107, 109, 50>>>>, <<13219, <<109, 109, 51>>>>, <<13220, <<99, 109,
       51>>>>, <<13221, <<109, 51>>>>, <<13222, <<107, 109, 51>>>>, <<13223,
       <<109, 115>>>>, <<13224, <<109, 115, 50>>>>, <<13225, <<80, 97>>>>,
       <<13226, <<107, 80, 97>>>>, <<13227, <<77, 80, 97>>>>, <<13228, <<71,
       80, 97>>>>, <<13229, <<114, 97, 100>>>>, <<13230, <<114, 97, 100,
       115>>>>, <<13231, <<114, 97, 100, 115, 50>>>>, <<13232, <<112, 115>>>>,
       <<13233, <<110, 115>>>>, <<13235, <<109, 115>>>>, <<13236, <<112,
       86>>>>, <<13237, <<110, 86>>>>, <<13239, <<109, 86>>>>, <<13240, <<107,
       86>>>>, <<13241, <<77, 86>>>>, <<13242, <<112, 87>>>>, <<13243, <<110,
       87>>>>, <<13245, <<109, 87>>>>, <<13246, <<107, 87>>>>, <<13247, <<77,
       87>>>>, <<13250, <<97, 46, 109, 46>>>>, <<13251, <<66, 113>>>>, <<13252,
       <<99, 99>>>>, <<13253, <<99, 100>>>>, <<13254, <<67, 107, 103>>>>,
       <<13255, <<67, 111, 46>>>>, <<13256, <<100, 66>>>>, <<13257, <<71,
       121>>>>, <<13258, <<104, 97>>>>, <<13259, <<72, 80>>>>, <<13260, <<105,
       110>>>>, <<13261, <<75, 75>>>>, <<13262, <<75, 77>>>>, <<13263, <<107,
       116>>>>, <<13264, <<108, 109>>>>, <<13265, <<108, 110>>>>, <<13266,
       <<108, 111, 103>>>>, <<13267, <<108, 120>>>>, <<13268, <<109, 98>>>>,
       <<13269, <<109, 105, 108>>>>, <<13270, <<109, 111, 108>>>>, <<13271,
       <<80, 72>>>>, <<13272, <<112, 46, 109, 46>>>>, <<13273, <<80, 80,
       77>>>>, <<13274, <<80, 82>>>>, <<13275, <<115, 114>>>>, <<13276, <<83,
       118>>>>, <<13277, <<87, 98>>>>, <<13278, <<86, 109>>>>, <<13279, <<65,
       109>>>>, <<13289, <<49, 48>>>>, <<13290, <<49, 49>>>>, <<13291, <<49,
       50>>>>, <<13292, <<49, 51>>>>, <<13293, <<49, 52>>>>, <<13294, <<49,
       53>>>>, <<13295, <<49, 54>>>>, <<13296, <<49, 55>>>>, <<13297, <<49,
       56>>>>, <<13298, <<49, 57>>>>, <<13299, <<50, 48>>>>, <<13300, <<50,
       49>>>>, <<13301, <<50, 50>>>>, <<13302, <<50, 51>>>>, <<13303, <<50,
       52>>>>, <<13304, <<50, 53>>>>, <<13305, <<50, 54>>>>, <<13306, <<50,
       55>>>>, <<13307, <<50, 56>>>>, <<13308, <<50, 57>>>>, <<13309, <<51,
       48>>>>, <<13310, <<51, 49>>>>, <<13311, <<103, 97, 108>>>>, <<64256,
       <<102, 102>>>>, <<64257, <<102, 105>>>>, <<64258, <<102, 108>>>>,
       <<64259, <<102, 102, 105>>>>, <<64260, <<102, 102, 108>>>>, <<64261,
       <<115, 116>>>>, <<64262, <<115, 116>>>>, <<65018, <<32, 32, 32>>>>,
       <<65049, <<46, 46, 46>>>>, <<65072, <<46, 46>>>>, <<127232, <<48,
       46>>>>, <<127233, <<48, 44>>>>, <<127234, <<49, 44>>>>, <<127235, <<50,
       44>>>>, <<127236, <<51, 44>>>>, <<127237, <<52, 44>>>>, <<127238, <<53,
       44>>>>, <<127239, <<54, 44>>>>, <<127240, <<55, 44>>>>, <<127241, <<56,
       44>>>>, <<127242, <<57, 44>>>>, <<127248, <<40, 65, 41>>>>, <<127249,
       <<40, 66, 41>>>>, <<127250, <<40, 67, 41>>>>, <<127251, <<40, 68,
       41>>>>, <<127252, <<40, 69, 41>>>>, <<127253, <<40, 70, 41>>>>,
       <<127254, <<40, 71, 41>>>>, <<127255, <<40, 72, 41>>>>, <<127256, <<40,
       73, 41>>>>, <<127257, <<40, 74, 41>>>>, <<127258, <<40, 75, 41>>>>,
       <<127259, <<40, 76, 41>>>>, <<127260, <<40, 77, 41>>>>, <<127261, <<40,
       78, 41>>>>, <<127262, <<40, 79, 41>>>>, <<127263, <<40, 80, 41>>>>,
       <<127264, <<40, 81, 41>>>>, <<127265, <<40, 82, 41>>>>, <<127266, <<40,
       83, 41>>>>, <<127267, <<40, 84, 41>>>>, <<127268, <<40, 85, 41>>>>,
       <<127269, <<40, 86, 41>>>>, <<127270, <<40, 87, 41>>>>, <<127271, <<40,
       88, 41>>>>, <<127272, <<40, 89, 41>>>>, <<127273, <<40, 90, 41>>>>,
       <<127277, <<67, 68>>>>, <<127278, <<87, 90>>>>, <<127306, <<72, 86>>>>,
       <<127307, <<77, 86>>>>, <<127308, <<83, 68>>>>, <<127309, <<83, 83>>>>,
       <<127310, <<80, 80, 86>>>>, <<127311, <<87, 67>>>>, <<127338, <<77,
       67>>>>, <<127339, <<77, 68>>>>, <<127340, <<77, 82>>>>, <<127376, <<68,
       74>>>> >>
\* NFKD normalization and ASCII encoding of one character: an ASCII character
\* stays, any other leaves the ASCII characters of its decomposition
AsciiFoldChar(c) ==
    IF c < 128 THEN <<c>>
    ELSE IF Mapped(c, FoldRuns, FoldSpecial) = <<c>> THEN <<>>
    ELSE Mapped(c, FoldRuns, FoldSpecial)

RECURSIVE AsciiFold(_)
AsciiFold(s) ==
    IF s = <<>> THEN <<>> ELSE AsciiFoldChar(Head(s)) \o AsciiFold(Tail(s))

\* werkzeug.utils.secure_filename: the name is folded to ASCII, path
\* separators become spaces, whitespace runs become "_", every character
\* outside [A-Za-z0-9_.-] is dropped, leading and trailing "." and "_" are
\* stripped.
secure_filename(filename) ==
    LET t0 == AsciiFold(filename)
        t1 == StrReplace(t0, <<SLASH>>, <<SP>>)
        t2 == UnderscoreRuns(Strip(t1), 1)
        t3 == SelectChars(t2, AsciiWordChars \cup {DOT, HY})
    IN  StripChars(t3, {DOT, UNDERSCORE})

\* ------------------------------------------------------------------------
\* utils/extract.py: the extraction pipeline
\* ------------------------------------------------------------------------
\* The acceptance threshold of extract_text_from_pdf
Threshold == 10

RECURSIVE JoinWith(_, _)
\* sep.join(parts)
JoinWith(parts, sep) ==
    IF parts = <<>> THEN <<>>
    ELSE IF Len(parts) = 1 THEN parts[1]
    ELSE parts[1] \o sep \o JoinWith(Tail(parts), sep)

\* The stripped texts of the pages that hold text, in page order
NonEmptyStripped(pages) ==
    SelectSeq([k \in 1..Len(pages) |-> Strip(pages[k])], LAMBDA t : t # <<>>)

extract_with_pdfplumber(pages, preserve_formatting) ==
    postprocess_text(JoinWith(NonEmptyStripped(pages), BlankLine), preserve_formatting)

extract_with_pdfminer(text, preserve_formatting) ==
    postprocess_text(text, preserve_formatting)

ocr_scanned_pdf(pageTexts, preserve_formatting) ==
    postprocess_text(JoinWith(NonEmptyStripped(pageTexts), BlankLine), preserve_formatting)

\* What a call hands its caller: a returned str, or a raised exception
Returned(v) == [raised |-> FALSE, value |-> v]
Raised(e) == [raised |-> TRUE, value |-> e]

\* Whether an extraction result is acceptable: `text and len(text) > 10`
loose_acceptable(text) == text # <<>> /\ Len(text) >= Threshold

acceptable(text) == text # <<>> /\ Len(text) > Threshold

\* extract_text_from_pdf, `except Exception as e`
pdf_uncaught(e) == Raised(e)

pdf_on_exception(e) == Returned(StrErrPdf \o e)

\* extract_text_from_image, `except Exception as e`
image_on_exception(e) == Returned(StrErrImage \o e)

\* `return ocr_text if ocr_text else "No text found (even with OCR)."`
pdf_ocr_result(ocr_text) == IF ocr_text # <<>> THEN ocr_text ELSE StrNoTextFound

\* ------------------------------------------------------------------------
\* utils/gemini_client.py
\* ------------------------------------------------------------------------
\* A decoded JSON value: its type and, for an object, the keys it holds
\* ("has") with their values.  {} is the object without keys.
JsonValue(type, has, caption, hashtags, suggestions, tone, confidence) ==
    [type |-> type, has |-> has, caption |-> caption, hashtags |-> hashtags,
     suggestions |-> suggestions, tone |-> tone, confidence |-> confidence]

EmptyDict == JsonValue("dict", {}, "", <<>>, <<>>, <<>>, "")
JsonList == JsonValue("list", {}, "", <<>>, <<>>, <<>>, "")
JsonFull ==
    JsonValue("dict", {"caption", "hashtags", "suggestions", "tone", "confidence"},
              "Join us!", <<"#ai", "#launch">>,
              <<"Open with a hook", "Tag the team", "Ask a question">>,
              Str(<<"p", "o", "s", "i", "t", "i", "v", "e">>), "0.87")
JsonPartial ==
    JsonValue("dict", {"caption", "tone"}, "", <<>>, <<>>,
              Str(<<"N", "E", "U", "T", "R", "A", "L">>), "")

\* What the AI service does for one call: whether GEMINI_API_KEY is set, and
\* whether generate_content raises ("error"), answers text json.loads rejects
\* ("malformed") or answers JSON ("json", decoding to value).
GeminiEnv(key, reply, value) == [key |-> key, reply |-> reply, value |-> value]

GeminiEnvs ==
    { GeminiEnv(FALSE, "error", EmptyDict),
      GeminiEnv(TRUE, "error", EmptyDict),
      GeminiEnv(TRUE, "malformed", EmptyDict),
      GeminiEnv(TRUE, "json", JsonList),
      GeminiEnv(TRUE, "json", JsonFull),
      GeminiEnv(TRUE, "json", JsonPartial) }

generate_insights_with_gemini(env) ==
    IF ~env.key THEN EmptyDict
    ELSE IF env.reply # "json" THEN EmptyDict
    ELSE env.value

\* ------------------------------------------------------------------------
\* utils/analyze.py
\* ------------------------------------------------------------------------
\* [A-Za-z0-9_']
TokenChars == AsciiWordChars \cup {APOSTROPHE}

\* re.findall(C+): the maximal runs of characters of class C, left to right
RECURSIVE RunsOf(_, _, _)
RunsOf(s, i, C) ==
    IF i > Len(s) THEN <<>>
    ELSE IF s[i] \in C
         THEN <<SubSeq(s, i, RunEnd(s, i, C) - 1)>> \o RunsOf(s, RunEnd(s, i, C), C)
         ELSE RunsOf(s, i + 1, C)

tokenize(text) == RunsOf(text, 1, TokenChars)

\* len(re.findall(mark + r"\w+", text)) for a one-character mark
RECURSIVE CountMarked(_, _, _)
CountMarked(s, i, mark) ==
    IF i >= Len(s) THEN 0
    ELSE IF s[i] = mark /\ s[i + 1] \in WordChars
         THEN 1 + CountMarked(s, RunEnd(s, i + 1, WordChars), mark)
         ELSE CountMarked(s, i + 1, mark)

\* First index j >= i of s whose character is in class C (Len(s)+1 if none)
RECURSIVE RunEndNot(_, _, _)
RunEndNot(s, i, C) ==
    IF i > Len(s) \/ s[i] \in C THEN i ELSE RunEndNot(s, i + 1, C)

StartsAt(s, i, pat) ==
    i + Len(pat) - 1 <= Len(s) /\ SubSeq(s, i, i + Len(pat) - 1) = pat

\* Length of the match of r"https?://" at i, 0 without one
SchemeHttps == Str(<<"h", "t", "t", "p", "s", ":", "/", "/">>)
SchemeHttp == Str(<<"h", "t", "t", "p", ":", "/", "/">>)
UrlSchemeAt(s, i) ==
    IF StartsAt(s, i, SchemeHttps) THEN Len(SchemeHttps)
    ELSE IF StartsAt(s, i, SchemeHttp) THEN Len(SchemeHttp)
    ELSE 0

\* len(re.findall(r"https?://\S+", text))
RECURSIVE CountUrls(_, _)
CountUrls(s, i) ==
    IF i > Len(s) THEN 0
    ELSE LET n == UrlSchemeAt(s, i)
         IN  IF n > 0 /\ i + n <= Len(s) /\ s[i + n] \notin Space
             THEN 1 + CountUrls(s, RunEndNot(s, i + n, Space))
             ELSE CountUrls(s, i + 1)

\* The indices at which a key occurs for the first time
FirstOccurrences(keys) ==
    {k \in 1..Len(keys) : \A j \in 1..(k - 1) : keys[j] # keys[k]}

\* Counter(keys): the count of the key at each first occurrence
Counts(keys, firsts) ==
    [k \in firsts |-> Cardinality({j \in 1..Len(keys) : keys[j] = keys[k]})]

\* The number of keys that come before the key at k: those of a higher
\* count, and those of the same count that occur first
Ranks(firsts, count) ==
    [k \in firsts |-> Cardinality({j \in firsts :
                          \/ count[j] > count[k]
                          \/ count[j] = count[k] /\ j < k})]

RankedCounts(keys, firsts, count, rank, n) ==
    [r \in 1..(IF Cardinality(firsts) < n THEN Cardinality(firsts) ELSE n) |->
        LET k == CHOOSE k \in firsts : rank[k] = r - 1
        IN  <<keys[k], count[k]>>]

\* Counter(keys).most_common(n): the distinct keys with their counts, by
\* falling count, keys of equal count in the order they first occur.  Each
\* intermediate value is bound once.
most_common(keys, n) ==
    CHOOSE top \in
        UNION { UNION { UNION { { RankedCounts(ks, fs, cs, rk, n) : rk \in {Ranks(fs, cs)} }
                                : cs \in {Counts(ks, fs)} }
                        : fs \in {FirstOccurrences(ks)} }
                : ks \in {keys} } : TRUE

RECURSIVE SumLen(_)
SumLen(ws) == IF ws = <<>> THEN 0 ELSE Len(Head(ws)) + SumLen(Tail(ws))

\* The exponent of the float total / count >= 1: the e with 2^e <= it < 2^(e+1)
RECURSIVE BinaryExponent(_, _)
BinaryExponent(total, count) ==
    IF total < 2 * count THEN 0 ELSE 1 + BinaryExponent(total, 2 * count)

\* 2^s modulo m
RECURSIVE PowerOfTwoMod(_, _)
PowerOfTwoMod(s, m) ==
    IF s = 0 THEN 1 % m ELSE (2 * PowerOfTwoMod(s - 1, m)) % m

\* Whether the double nearest to total / count lies above the quotient: the
\* remainder of the division that yields its 53-bit significand is over half
FloatAbove(total, count) ==
    2 * (((total % count) * PowerOfTwoMod(52 - BinaryExponent(total, count), count))
            % count) > count

\* round(total / count, 2) in hundredths, for total = 0 or total >= count.
\* A tie that the float holds exactly (a multiple of 1/8) goes to the even
\* hundredth; any other tie goes the way the float is off the quotient.
RoundedHundredths(total, count) ==
    LET q == (100 * total) \div count
        r == (100 * total) % count
    IN  IF 2 * r > count THEN q + 1
        ELSE IF 2 * r < count THEN q
        ELSE IF (8 * total) % count = 0
             THEN (IF q % 2 = 0 THEN q ELSE q + 1)
        ELSE IF FloatAbove(total, count) THEN q + 1 ELSE q

\* str.capitalize()
Capitalize(s) ==
    IF s = <<>> THEN <<>>
    ELSE TitleChar(s[1]) \o LowerFrom(s, 2)

TonePositive == Str(<<"P", "o", "s", "i", "t", "i", "v", "e">>)
ToneNegative == Str(<<"N", "e", "g", "a", "t", "i", "v", "e">>)
ToneNeutral == Str(<<"N", "e", "u", "t", "r", "a", "l">>)

\* Scores of SentimentIntensityAnalyzer.polarity_scores, in ten-thousandths
Sentiment(compound, pos, neu, neg) ==
    [compound |-> compound, pos |-> pos, neu |-> neu, neg |-> neg]

Sentiments ==
    { Sentiment(500, 1200, 7000, 800),
      Sentiment(6369, 2900, 7100, 0),
      Sentiment(-501, 0, 6000, 4000) }

\* Lines 32-38: the tone label of the local sentiment
local_tone_of(compound) ==
    IF compound > 500 THEN TonePositive
    ELSE IF compound < -500 THEN ToneNegative
    ELSE ToneNeutral

DefaultCaption == "Add a concise, benefit-led caption."

Noted(value, note) == [value |-> value, note |-> note]

\* The caption of the AI result taken as it is, nothing put in its place
ai_caption_or_nothing(g) == g.caption

\* `(g.get("caption") if isinstance(g, dict) else None) or "Add a concise..."`
ai_caption_or_default(g) ==
    IF g.type = "dict" /\ "caption" \in g.has /\ g.caption # ""
    THEN g.caption ELSE DefaultCaption

\* [w.lower() for w in words if len(w) > 2]
Keywords(words) ==
    SelectSeq([k \in 1..Len(words) |-> Lower(words[k])], LAMBDA w : Len(w) > 2)

\* What analyze_text computes from the text alone: the stripped text, its
\* tokens, the numbers of hashtags, mentions and links, and the top keywords.
\* The tokens are bound once.
analyze_text_local(text) ==
    IF Strip(text) = <<>>
    THEN [kind |-> "empty"]
    ELSE CHOOSE m \in
           UNION { { [kind |-> "text",
                      text |-> t,
                      words |-> ws,
                      hashtags |-> CountMarked(t, 1, HASH),
                      mentions |-> CountMarked(t, 1, AT),
                      urls |-> CountUrls(t, 1),
                      top |-> most_common(Keywords(ws), 8)]
                     : ws \in {tokenize(t)} }
                   : t \in {Strip(text)} } : TRUE

\* analyze_text(text), given what it computed from the text (local), what
\* polarity_scores handed back and what the AI call handed back.  The result
\* keeps the keys of the source; the nesting under "summary" and
\* "ai_generated" is flattened.
analyze_text(local, sentiment, g) ==
    IF local.kind = "empty" THEN [kind |-> "empty"] ELSE
    LET t == local.text
        words == local.words
        top == local.top
        wc == Len(words)
        hashtags == local.hashtags
        mentions == local.mentions
        urls == local.urls
        local_tone == local_tone_of(sentiment.compound)
        avg_len == RoundedHundredths(SumLen(words), IF wc > 1 THEN wc ELSE 1)
        isdict == g.type = "dict"
        ai_caption == ai_caption_or_default(g)
        ai_hashtags == IF isdict /\ "hashtags" \in g.has THEN g.hashtags ELSE <<>>
        ai_suggestions == IF isdict /\ "suggestions" \in g.has
                          THEN g.suggestions ELSE <<>>
        display_tone == IF isdict /\ "tone" \in g.has /\ g.tone # <<>>
                        THEN Capitalize(g.tone) ELSE local_tone
    IN  [kind |-> "analysis",
         words |-> Noted(wc,
             IF wc < 50 THEN "very short - may lack context"
             ELSE IF wc > 300 THEN "long - consider trimming for attention"
             ELSE "medium length - good for LinkedIn"),
         chars |-> Len(t),
         avg_word_len |-> Noted(avg_len,
             IF avg_len < 500 THEN "Easy to read"
             ELSE IF avg_len < 700 THEN "Moderate complexity"
             ELSE "Complex, may reduce engagement"),
         hashtags |-> Noted(hashtags,
             IF hashtags = 0 THEN "Missing hashtags"
             ELSE IF hashtags < 3 THEN "Could add more for reach"
             ELSE "Good use"),
         mentions |-> Noted(mentions,
             IF mentions > 0 THEN "Strong collaboration tagging" ELSE ""),
         urls |-> Noted(urls,
             IF urls > 2 THEN "May appear promotional if all are kept" ELSE ""),
         tone |-> display_tone,
         sentiment |->
             [compound |-> Noted(sentiment.compound, local_tone),
              pos |-> Noted(sentiment.pos,
                  IF sentiment.pos > 0 THEN "Slightly positive" ELSE ""),
              neu |-> Noted(sentiment.neu,
                  IF sentiment.neu > 7000 THEN "Mostly neutral" ELSE ""),
              neg |-> Noted(sentiment.neg,
                  IF sentiment.neg = 0 THEN "No negativity" ELSE "")],
         top_keywords |-> top,
         gemini_confidence |-> IF isdict /\ "confidence" \in g.has
                               THEN g.confidence ELSE "",
         engagement |-> ai_suggestions,
         caption |-> ai_caption,
         recommended_hashtags |-> ai_hashtags]

\* ------------------------------------------------------------------------
\* State
\* ------------------------------------------------------------------------
VARIABLES
    raw,        \* normalizer: the text handed to _postprocess_text
    once,       \* normalizer: _postprocess_text(raw)
    twice,      \* normalizer: _postprocess_text(once)
    npc,        \* normalizer: "off", "input", "once", "twice"
    preserve,   \* PRESERVE_FORMATTING, read once at start-up
    pc,         \* position of the request handler index()
    files,      \* request.files.getlist("files"): the uploaded file names
    cur,        \* index of the file the loop of index() is at
    name,       \* secure_filename(f.filename) of the current file
    ext,        \* its lower-cased extension
    log,        \* history: the methods attempted on the current file, in order
    call,       \* what extract_text_from_pdf / _image handed back
    results,    \* index(): results
    errors,     \* index(): errors
    resultOf,   \* history: the file index behind each entry of results
    errorOf,    \* history: the file index behind each entry of errors
    fate,       \* history: what truly happened to each file
    combined,   \* index(): combined
    analysis,   \* index(): analysis
    gemini      \* history: what the AI service did for the request

vars == <<raw, once, twice, npc, preserve, pc, files, cur, name, ext, log, call,
          results, errors, resultOf, errorOf, fate, combined, analysis, gemini>>

nvars == <<raw, once, twice, npc>>
rvars == <<pc, files, cur, name, ext, log, call, results, errors, resultOf,
           errorOf, fate, combined, analysis, gemini>>

NoCall == Returned(<<>>)
Unset == [kind |-> "unset"]

\* The application after start-up, before any request
Idle ==
    /\ pc = "idle"
    /\ files = <<>>
    /\ cur = 0
    /\ name = <<>>
    /\ ext = <<>>
    /\ log = <<>>
    /\ call = NoCall
    /\ results = <<>>
    /\ errors = <<>>
    /\ resultOf = <<>>
    /\ errorOf = <<>>
    /\ fate = <<>>
    /\ combined = <<>>
    /\ analysis = Unset
    /\ gemini = GeminiEnv(FALSE, "error", EmptyDict)

\* ------------------------------------------------------------------------
\* The normalizer applied to extracted text, and applied again to its output
\* ------------------------------------------------------------------------
MaxLines == 4

\* Lines of a raw extracted text: words, a word broken by a hyphen, leading
\* and trailing blanks, a CR line ending, a word of a letter outside ASCII,
\* the form feed pdfminer puts at the end of a page, a word of a letter
\* outside Latin-1 broken by a hyphen with whitespace outside Latin-1 after it.
LineSet == { <<>>, <<LetterA>>, <<LetterA, HY>>, <<LetterA, HY, FF>>,
             <<TAB, LetterA, SP>>, <<EAcute, CR>>, <<FF, LetterA>>,
             <<CapitalOmega, HY, OghamSpace>> }

RawTexts == { JoinWith(ls, <<NL>>) : ls \in UNION { [1..n -> LineSet] : n \in 0..MaxLines } }

NormInit ==
    /\ raw \in RawTexts
    /\ preserve \in BOOLEAN
    /\ once = <<>>
    /\ twice = <<>>
    /\ npc = "input"
    /\ Idle

\* _postprocess_text(raw, preserve)
Normalize ==
    /\ npc = "input"
    /\ once' = postprocess_text(raw, preserve)
    /\ npc' = "once"
    /\ UNCHANGED <<raw, preserve, twice, rvars>>

\* _postprocess_text applied to its own output
Renormalize ==
    /\ npc = "once"
    /\ twice' = postprocess_text(once, preserve)
    /\ npc' = "twice"
    /\ UNCHANGED <<raw, preserve, once, rvars>>

NormNext == Normalize \/ Renormalize

SpecNorm == NormInit /\ [][NormNext]_vars

\* ------------------------------------------------------------------------
\* app.py: index(), one request
\* ------------------------------------------------------------------------
Init ==
    /\ raw = <<>>
    /\ once = <<>>
    /\ twice = <<>>
    /\ npc = "off"
    /\ preserve \in BOOLEAN
    /\ Idle

\* GET: the upload form
Get ==
    /\ pc = "idle"
    /\ pc' = "form"
    /\ UNCHANGED <<nvars, preserve, files, cur, name, ext, log, call, results,
                   errors, resultOf, errorOf, fate, combined, analysis, gemini>>

\* POST, lines 23-28: the file list is read; without a file (no part, or a
\* first part with an empty file name) the request is flashed and redirected.
Post ==
    /\ pc = "idle"
    /\ \E fs \in Batches :
          /\ files' = fs
          /\ fate' = [k \in 1..Len(fs) |-> "pending"]
          /\ IF fs = <<>> \/ fs[1] = <<>>
             THEN pc' = "redirected" /\ cur' = 0
             ELSE pc' = "loop" /\ cur' = 1
    /\ UNCHANGED <<nvars, preserve, name, ext, log, call, results, errors,
                   resultOf, errorOf, combined, analysis, gemini>>

\* Lines 30-32: a file whose name is not allowed() is reported and skipped.
RejectUnsupported ==
    /\ pc = "loop"
    /\ cur <= Len(files)
    /\ ~allowed(files[cur])
    /\ errors' = Append(errors, StrUnsupported \o files[cur])
    /\ errorOf' = Append(errorOf, cur)
    /\ fate' = [fate EXCEPT ![cur] = "unsupported"]
    /\ cur' = cur + 1
    /\ UNCHANGED <<nvars, preserve, pc, files, name, ext, log, call, results,
                   resultOf, combined, analysis, gemini>>

\* Lines 33-34, outside the try: the name is secured and its extension taken.
\* name.rsplit(".", 1)[1] raises IndexError when the secured name holds no
\* dot, and nothing catches it: the request ends in an unhandled exception.
BeginExtract ==
    /\ pc = "loop"
    /\ cur <= Len(files)
    /\ allowed(files[cur])
    /\ name' = secure_filename(files[cur])
    /\ log' = <<>>
    /\ IF Len(rsplit_dot(secure_filename(files[cur]))) < 2
       THEN /\ pc' = "crashed"
            /\ call' = Raised(ExcIndex)
            /\ ext' = ext
       ELSE /\ ext' = Lower(rsplit_dot(secure_filename(files[cur]))[2])
            /\ call' = NoCall
            /\ pc' = IF Lower(rsplit_dot(secure_filename(files[cur]))[2]) = ExtPdf
                     THEN "pdf_read" ELSE "image"
    /\ UNCHANGED <<nvars, preserve, files, cur, results, errors, resultOf,
                   errorOf, fate, combined, analysis, gemini>>

Attempt(method, ok, text) == [method |-> method, ok |-> ok, text |-> text]

\* extract_text_from_pdf, lines 174-176: seek and read the stream
PdfRead ==
    /\ pc = "pdf_read"
    /\ \/ /\ log' = Append(log, Attempt("read", TRUE, <<>>))
          /\ pc' = "pdf_plumber"
          /\ UNCHANGED <<call, fate>>
       \/ /\ log' = Append(log, Attempt("read", FALSE, ExcClosed))
          /\ call' = pdf_on_exception(ExcClosed)
          /\ fate' = [fate EXCEPT ![cur] = "failed"]
          /\ pc' = "extracted"
    /\ UNCHANGED <<nvars, preserve, files, cur, name, ext, results, errors,
                   resultOf, errorOf, combined, analysis, gemini>>

\* Lines 179-181: method A, pdfplumber
PdfPlumber ==
    /\ pc = "pdf_plumber"
    /\ \/ \E pages \in PlumberPages :
            LET text_plumber == extract_with_pdfplumber(pages, preserve)
            IN  /\ log' = Append(log, Attempt("plumber", TRUE, text_plumber))
                /\ IF acceptable(text_plumber)
                   THEN /\ call' = Returned(text_plumber)
                        /\ fate' = [fate EXCEPT ![cur] = "text"]
                        /\ pc' = "extracted"
                   ELSE /\ pc' = "pdf_miner"
                        /\ UNCHANGED <<call, fate>>
       \/ /\ log' = Append(log, Attempt("plumber", FALSE, ExcBadPdf))
          /\ call' = pdf_on_exception(ExcBadPdf)
          /\ fate' = [fate EXCEPT ![cur] = "failed"]
          /\ pc' = "extracted"
    /\ UNCHANGED <<nvars, preserve, files, cur, name, ext, results, errors,
                   resultOf, errorOf, combined, analysis, gemini>>

\* Lines 184-186: method B, pdfminer
PdfMiner ==
    /\ pc = "pdf_miner"
    /\ \/ \E text \in MinerTexts :
            LET text_miner == extract_with_pdfminer(text, preserve)
            IN  /\ log' = Append(log, Attempt("miner", TRUE, text_miner))
                /\ IF acceptable(text_miner)
                   THEN /\ call' = Returned(text_miner)
                        /\ fate' = [fate EXCEPT ![cur] = "text"]
                        /\ pc' = "extracted"
                   ELSE /\ pc' = "pdf_ocr"
                        /\ UNCHANGED <<call, fate>>
       \/ /\ log' = Append(log, Attempt("miner", FALSE, ExcBadPdf))
          /\ call' = pdf_on_exception(ExcBadPdf)
          /\ fate' = [fate EXCEPT ![cur] = "failed"]
          /\ pc' = "extracted"
    /\ UNCHANGED <<nvars, preserve, files, cur, name, ext, results, errors,
                   resultOf, errorOf, combined, analysis, gemini>>

\* Whether every method attempted so far found nothing at all
FoundNothingSoFar == \A k \in 1..Len(log) : log[k].text = <<>>

\* Lines 189-190: rasterize at 300 DPI and OCR every page
PdfOcr ==
    /\ pc = "pdf_ocr"
    /\ \/ \E pageTexts \in OcrPages :
            LET ocr_text == ocr_scanned_pdf(pageTexts, preserve)
            IN  /\ log' = Append(log, Attempt("ocr", TRUE, ocr_text))
                /\ call' = Returned(pdf_ocr_result(ocr_text))
                /\ fate' = [fate EXCEPT ![cur] =
                              IF ocr_text # <<>> THEN "text"
                              ELSE IF FoundNothingSoFar THEN "notext"
                              ELSE "noise"]
       \/ /\ log' = Append(log, Attempt("ocr", FALSE, ExcNoPoppler))
          /\ call' = pdf_on_exception(ExcNoPoppler)
          /\ fate' = [fate EXCEPT ![cur] = "failed"]
    /\ pc' = "extracted"
    /\ UNCHANGED <<nvars, preserve, files, cur, name, ext, results, errors,
                   resultOf, errorOf, combined, analysis, gemini>>

\* extract_text_from_image, lines 198-205
ImageOcr ==
    /\ pc = "image"
    /\ \/ \E txt \in OcrImageTexts :
            LET text == postprocess_text(Strip(txt), preserve)
            IN  /\ log' = Append(log, Attempt("ocr", TRUE, text))
                /\ call' = Returned(text)
                /\ fate' = [fate EXCEPT ![cur] =
                              IF text # <<>> THEN "text" ELSE "notext"]
       \/ /\ log' = Append(log, Attempt("ocr", FALSE, ExcBadImage))
          /\ call' = image_on_exception(ExcBadImage)
          /\ fate' = [fate EXCEPT ![cur] = "failed"]
    /\ pc' = "extracted"
    /\ UNCHANGED <<nvars, preserve, files, cur, name, ext, results, errors,
                   resultOf, errorOf, combined, analysis, gemini>>

\* Lines 37-43: the text handed back is stripped and filed under results or
\* errors; an exception out of the extraction is filed under errors.
FileResult ==
    /\ pc = "extracted"
    /\ IF call.raised
       THEN /\ errors' = Append(errors, StrErrorIn \o name \o StrColon \o call.value)
            /\ errorOf' = Append(errorOf, cur)
            /\ UNCHANGED <<results, resultOf>>
       ELSE IF Strip(call.value) # <<>>
       THEN /\ results' = Append(results, [filename |-> name, text |-> Strip(call.value)])
            /\ resultOf' = Append(resultOf, cur)
            /\ UNCHANGED <<errors, errorOf>>
       ELSE /\ errors' = Append(errors, StrNoTextIn \o name)
            /\ errorOf' = Append(errorOf, cur)
            /\ UNCHANGED <<results, resultOf>>
    /\ cur' = cur + 1
    /\ log' = <<>>
    /\ pc' = "loop"
    /\ UNCHANGED <<nvars, preserve, files, name, ext, call, fate,
                   combined, analysis, gemini>>

\* Lines 45-55: the texts are joined, the combined text is analysed (the
\* sentiment scores and the AI service answering as they will) and the page
\* is rendered.
Render ==
    /\ pc = "loop"
    /\ cur > Len(files)
    /\ \E text \in { JoinWith([k \in 1..Len(results) |-> results[k].text], BlankLine) } :
          /\ combined' = text
          /\ IF text # <<>>
             THEN \E local \in {analyze_text_local(text)} :
                  \E sentiment \in Sentiments, env \in GeminiEnvs :
                     /\ gemini' = env
                     /\ analysis' = analyze_text(local, sentiment,
                                        generate_insights_with_gemini(env))
             ELSE /\ analysis' = [kind |-> "none"]
                  /\ gemini' = gemini
    /\ pc' = "rendered"
    /\ UNCHANGED <<nvars, preserve, files, cur, name, ext, log, call, results,
                   errors, resultOf, errorOf, fate>>

Next ==
    \/ Get
    \/ Post
    \/ RejectUnsupported
    \/ BeginExtract
    \/ PdfRead
    \/ PdfPlumber
    \/ PdfMiner
    \/ PdfOcr
    \/ ImageOcr
    \/ FileResult
    \/ Render

Spec == Init /\ [][Next]_vars

\* ------------------------------------------------------------------------
\* Properties
\* ------------------------------------------------------------------------
Range(f) == {f[k] : k \in DOMAIN f}

\* C1: normalization is idempotent in both modes: a second application
\* leaves the output of the first unchanged.
C1_Idempotent == npc = "twice" => twice = once

\* The runs of blanks and line breaks of s, as <<first, last>>, maximal on
\* both sides
BreakRuns(s) ==
    {<<p, RunEnd(s, p, Blank \cup {NL}) - 1>> :
        p \in {p \in 1..Len(s) : /\ s[p] \in Blank \cup {NL}
                                 /\ (p = 1 \/ s[p - 1] \notin Blank \cup {NL})}}

\* The runs that hold exactly one line break and stand between two pieces of
\* text: the characters next to the run are no whitespace
SingleBreaks(s) ==
    {r \in BreakRuns(s) :
        /\ r[1] > 1
        /\ r[2] < Len(s)
        /\ s[r[1] - 1] \notin Space
        /\ s[r[2] + 1] \notin Space
        /\ Cardinality({k \in r[1]..r[2] : s[k] = NL}) = 1}

\* The run follows a word character and a hyphen and is followed by a word
\* character: the break of a hyphen-broken word
BreaksAWord(s, r) ==
    /\ r[1] >= 3
    /\ s[r[1] - 1] = HY
    /\ s[r[1] - 2] \in WordChars
    /\ s[r[2] + 1] \in WordChars

\* Every line break of t is one of exactly two consecutive line breaks
OnlyParagraphBreaks(t) ==
    \A i \in 1..Len(t) :
        (t[i] = NL /\ (i = 1 \/ t[i - 1] # NL)) => RunEnd(t, i, {NL}) = i + 2

\* The text around the run r of s, normalized in flow mode, with one space
\* in place of the run
SpaceInPlaceOf(s, r) ==
    postprocess_text(SubSeq(s, 1, r[1] - 1), FALSE) \o <<SP>>
        \o postprocess_text(SubSeq(s, r[2] + 1, Len(s)), FALSE)

\* C9, as the specification words it: in flow mode every single line break
\* between two pieces of text is replaced by exactly one space, and the only
\* line breaks of the output are pairs.
C9_EverySingleBreakIsSpace ==
    (npc = "once" /\ ~preserve) =>
        /\ OnlyParagraphBreaks(once)
        /\ \A r \in SingleBreaks(CanonNewlines(raw)) :
               once = SpaceInPlaceOf(CanonNewlines(raw), r)

\* C9, amended: in flow mode every single line break between two pieces of
\* text that is not the break of a hyphen-broken word is replaced by exactly
\* one space, and the only line breaks of the output are pairs.
C9_SingleBreakIsSpace ==
    (npc = "once" /\ ~preserve) =>
        /\ OnlyParagraphBreaks(once)
        /\ \A r \in SingleBreaks(CanonNewlines(raw)) :
               ~BreaksAWord(CanonNewlines(raw), r) =>
                   once = SpaceInPlaceOf(CanonNewlines(raw), r)

\* C9 witness: a flow-mode text with a single break that became a space and
\* a paragraph break that was kept
C9_Witness ==
    /\ npc = "once"
    /\ ~preserve
    /\ \E r \in SingleBreaks(CanonNewlines(raw)) : ~BreaksAWord(CanonNewlines(raw), r)
    /\ \E i \in 1..Len(once) : once[i] = SP
    /\ \E i \in 1..Len(once) : once[i] = NL

\* s with the hyphen and the whitespace of the hyphen break at i taken out
JoinedAt(s, i) ==
    SubSeq(s, 1, i) \o SubSeq(s, RunEnd(s, i + 2, Space), Len(s))

\* C10: in flow mode every hyphen-broken word of the input is repaired: the
\* output is that of the input with the hyphen and the break taken out by hand,
\* whichever occurrence is taken.
C10_EveryHyphenBreakJoined ==
    (npc = "once" /\ ~preserve) =>
        \A i \in 1..Len(CanonNewlines(raw)) :
            HyphenBreakAt(CanonNewlines(raw), i) =>
                once = postprocess_text(JoinedAt(CanonNewlines(raw), i), FALSE)

\* The methods attempted on the current file, in order
Methods == [k \in 1..Len(log) |-> log[k].method]

IsPrefix(a, b) == Len(a) <= Len(b) /\ a = SubSeq(b, 1, Len(a))

\* C2: on a PDF the stream is read, then pdfplumber, pdfminer and OCR are
\* tried in that order; when no step raises, pdfminer is tried if and only if
\* pdfplumber's normalized result has at most 10 characters, OCR if and only if
\* both results have at most 10, and a longer result is returned as it is.
C2_OrderedFallback ==
    /\ ext = ExtPdf => IsPrefix(Methods, <<"read", "plumber", "miner", "ocr">>)
    /\ (pc = "extracted" /\ ext = ExtPdf /\ \A k \in 1..Len(log) : log[k].ok) =>
          /\ Len(log) >= 2
          /\ (Len(log) >= 3 <=> Len(log[2].text) <= 10)
          /\ (Len(log) >= 4 <=> (Len(log[2].text) <= 10 /\ Len(log[3].text) <= 10))
          /\ Len(log[2].text) > 10 => call = Returned(log[2].text)
          /\ (Len(log) >= 3 /\ Len(log[3].text) > 10) => call = Returned(log[3].text)

\* C2 witness: pdfplumber found exactly 10 characters, so pdfminer was tried,
\* and its longer result was returned without OCR
C2_Witness ==
    /\ pc = "extracted"
    /\ ext = ExtPdf
    /\ Methods = <<"read", "plumber", "miner">>
    /\ log[2].ok /\ Len(log[2].text) = 10
    /\ log[3].ok /\ Len(log[3].text) > 10
    /\ call = Returned(log[3].text)

\* C3: extract_text_from_pdf and extract_text_from_image never raise: the
\* caller receives a string, and when a step failed the string is the error
\* prefix followed by the message of the exception.
C3_NeverRaises ==
    pc = "extracted" =>
        /\ ~call.raised
        /\ \A k \in 1..Len(log) :
               ~log[k].ok =>
                   call.value = (IF ext = ExtPdf THEN StrErrPdf ELSE StrErrImage)
                                    \o log[k].text

\* C3 witness: the rasterization of a PDF failed after both text methods
\* found too little, and the call handed back the error string
C3_Witness ==
    /\ pc = "extracted"
    /\ ext = ExtPdf
    /\ Len(log) = 4
    /\ ~log[4].ok
    /\ call = Returned(StrErrPdf \o ExcNoPoppler)

\* C4: an accepted file in which no method, OCR included, found any text is
\* reported as "No text in <name>", is not among the results, and adds
\* nothing to the combined text.
C4_NoTextReported ==
    pc = "rendered" =>
        /\ \A i \in 1..Len(files) :
               fate[i] = "notext" =>
                   /\ \E k \in 1..Len(errors) :
                          /\ errorOf[k] = i
                          /\ errors[k] = StrNoTextIn \o secure_filename(files[i])
                   /\ i \notin Range(resultOf)
        /\ combined = JoinWith(
               [k \in 1..Len(SelectSeq(resultOf, LAMBDA i : fate[i] # "notext")) |->
                   results[CHOOSE j \in 1..Len(results) :
                       resultOf[j] = SelectSeq(resultOf, LAMBDA i : fate[i] # "notext")[k]].text],
               BlankLine)

\* C5: an accepted file whose extraction failed has an entry in errors, is
\* not among the results, and the combined text is the join of the texts of
\* the files whose extraction found text.
C5_FailureReported ==
    pc = "rendered" =>
        /\ \A i \in 1..Len(files) :
               fate[i] = "failed" =>
                   /\ i \in Range(errorOf)
                   /\ i \notin Range(resultOf)
        /\ combined = JoinWith(
               [k \in 1..Len(SelectSeq(resultOf, LAMBDA i : fate[i] # "failed")) |->
                   results[CHOOSE j \in 1..Len(results) :
                       resultOf[j] = SelectSeq(resultOf, LAMBDA i : fate[i] # "failed")[k]].text],
               BlankLine)

\* C6: a POST with at least one file always ends in a rendered response: no
\* exception leaves the handler, a failed file is an entry in errors, and the
\* request is turned away only when no file was uploaded.
C6_AlwaysRendered ==
    /\ pc # "crashed"
    /\ pc = "redirected" => \A i \in 1..Len(files) : files[i] = <<>>
    /\ pc = "rendered" =>
           \A i \in 1..Len(files) : fate[i] = "failed" => i \in Range(errorOf)

\* The part of a file name after its last dot, lower-cased, is one of pdf,
\* png, jpg, jpeg
HasSupportedExtension(fn) ==
    \E d \in 1..Len(fn) :
        /\ fn[d] = DOT
        /\ \A j \in (d + 1)..Len(fn) : fn[j] # DOT
        /\ Lower(SubSeq(fn, d + 1, Len(fn))) \in
               { Str(<<"p", "d", "f">>), Str(<<"p", "n", "g">>), Str(<<"j", "p", "g">>),
                 Str(<<"j", "p", "e", "g">>) }

\* C7: a file without a supported extension yields exactly one "Unsupported"
\* message, is not among the results, has no extraction run on it, and does
\* not keep the other files of the batch from being processed.
C7_UnsupportedRejected ==
    /\ \A i \in 1..Len(files) :
           ~HasSupportedExtension(files[i]) =>
               /\ cur = i => pc = "loop"
               /\ cur > i =>
                      /\ Cardinality({k \in 1..Len(errors) : errorOf[k] = i}) = 1
                      /\ \A k \in 1..Len(errors) :
                             errorOf[k] = i => errors[k] = StrUnsupported \o files[i]
                      /\ i \notin Range(resultOf)
                      /\ fate[i] = "unsupported"
    /\ pc = "rendered" => \A i \in 1..Len(files) : fate[i] # "pending"

\* C7 witness: a rendered batch of an unsupported file followed by a PDF whose
\* text was extracted
C7_Witness ==
    /\ pc = "rendered"
    /\ Len(files) = 2
    /\ ~HasSupportedExtension(files[1])
    /\ errors = <<StrUnsupported \o files[1]>>
    /\ fate[2] = "text"
    /\ resultOf = <<2>>

\* The AI service gave no usable result: no key, an exception, text that is no
\* JSON, or JSON that is no object
AiUnusable == ~gemini.key \/ gemini.reply # "json" \/ gemini.value.type # "dict"

\* C8: without a usable AI result the analysis of a non-empty text is still
\* returned: the caption is the default one, the recommended hashtags and the
\* engagement list are empty, the tone is the label of the local compound
\* score, and the word count, sentiment and keywords are those of the text.
C8_AiFallback ==
    (pc = "rendered" /\ combined # <<>> /\ AiUnusable) =>
        /\ analysis.kind = "analysis"
        /\ analysis.caption = "Add a concise, benefit-led caption."
        /\ analysis.recommended_hashtags = <<>>
        /\ analysis.engagement = <<>>
        /\ analysis.tone =
               (IF analysis.sentiment.compound.value > 500 THEN TonePositive
                ELSE IF analysis.sentiment.compound.value < -500 THEN ToneNegative
                ELSE ToneNeutral)
        /\ analysis.words.value = Len(tokenize(combined))
        /\ analysis.words.value > 0
        /\ analysis.chars = Len(combined)
        /\ Len(analysis.top_keywords) > 0
        /\ \A k \in 1..Len(analysis.top_keywords) : analysis.top_keywords[k][2] >= 1

\* C8 witness: the AI service answered JSON that is no object, and the page
\* was rendered with the local analysis of a negative text
C8_Witness ==
    /\ pc = "rendered"
    /\ gemini.key /\ gemini.reply = "json" /\ gemini.value.type = "list"
    /\ analysis.kind = "analysis"
    /\ analysis.tone = ToneNegative
    /\ analysis.caption = DefaultCaption

=============================================================================
